---- MODULE Spec2Model ----
(***************************************************************************)
(* A model of supertone.custom_utils: the text segmenter (text_utils.py),  *)
(* the WAV merger and the response extractor (audio_utils.py), the phoneme *)
(* merger (phoneme_utils.py) and the NDJSON extractor (text_utils.py).     *)
(*                                                                         *)
(* Strings are sequences of one-character strings, byte strings are        *)
(* sequences of integers 0..255, times are integers (ticks of 0.1 s).      *)
(* Each component has its own specification; the variables of the other    *)
(* components stay at their idle values in it.                             *)
(***************************************************************************)
EXTENDS Integers, Sequences, FiniteSets, TLC

VARIABLES
    text, max_length, final_chunks, tpc,
    audio_chunks, merged_wav, wpc,
    mp3_chunks, merged_mp3, mpc,
    phoneme_chunks, merged, ppc,
    adj_data, adj_offset, adj_result, apc,
    ndjson_lines, nd_result, npc,
    stream, content, stream_pos, stream_broken, fail_at, guarded,
    iter_count, rpc, rchunks, rret,
    rs_caching, rs_data, rs_pos, rs_content, rs_reads, rs_log,
    strip_data, strip_fn, strip_result,
    is_playing, stop_event, audio_queue, chunk_accumulator, audio_stream, settings, min_chunk_size, output_stream, accepted, feeder, producer

vars == <<text, max_length, final_chunks, tpc,
          audio_chunks, merged_wav, wpc,
          mp3_chunks, merged_mp3, mpc,
          phoneme_chunks, merged, ppc,
          adj_data, adj_offset, adj_result, apc,
          ndjson_lines, nd_result, npc,
          stream, content, stream_pos, stream_broken, fail_at, guarded,
          iter_count, rpc, rchunks, rret,
          rs_caching, rs_data, rs_pos, rs_content, rs_reads, rs_log,
          strip_data, strip_fn, strip_result,
          is_playing, stop_event, audio_queue, chunk_accumulator, audio_stream, settings, min_chunk_size, output_stream, accepted, feeder, producer>>

text_vars == <<text, max_length, final_chunks, tpc>>
wav_vars == <<audio_chunks, merged_wav, wpc>>
mp3_vars == <<mp3_chunks, merged_mp3, mpc>>
phoneme_vars == <<phoneme_chunks, merged, ppc>>
adjust_vars == <<adj_data, adj_offset, adj_result, apc>>
ndjson_vars == <<ndjson_lines, nd_result, npc>>
response_vars == <<stream, content, stream_pos, stream_broken, fail_at,
                   guarded, iter_count, rpc, rchunks, rret>>
read_vars == <<rs_caching, rs_data, rs_pos, rs_content, rs_reads, rs_log>>
strip_vars == <<strip_data, strip_fn, strip_result>>
player_vars == <<is_playing, stop_event, audio_queue, chunk_accumulator, audio_stream, settings, min_chunk_size, output_stream, accepted, feeder, producer>>

(***************************************************************************)
(* Generic helpers.                                                        *)
(***************************************************************************)
RECURSIVE Flatten(_)
Flatten(ss) == IF ss = <<>> THEN <<>> ELSE Head(ss) \o Flatten(Tail(ss))

RECURSIVE SumSeq(_)
SumSeq(s) == IF s = <<>> THEN 0 ELSE Head(s) + SumSeq(Tail(s))

Min2(a, b) == IF a <= b THEN a ELSE b

(***************************************************************************)
(* text_utils.py: the text segmenter.                                      *)
(***************************************************************************)
MaxTextLen == 6
MaxMaxLength == 3

\* The Latin part of the punctuation class; the other scripts' marks behave
\* the same way in the regular expression.
SENTENCE_SPLIT_PUNCTUATION == {".", "!", "?", ";", ":"}

\* What \s of the regular expression and str.split()/str.strip() take as
\* whitespace; only " " is a word boundary for _has_word_boundaries.
Whitespace == {" ", "\t", "\n"}

Alphabet == {"a", "b", ".", " ", "\t"}

IsPunct(c) == c \in SENTENCE_SPLIT_PUNCTUATION
IsSpace(c) == c \in Whitespace

\* First index >= i of s holding a punctuation mark, Len(s)+1 when none.
RECURSIVE FirstPunct(_, _)
FirstPunct(s, i) ==
    IF i > Len(s) THEN Len(s) + 1
    ELSE IF IsPunct(s[i]) THEN i ELSE FirstPunct(s, i + 1)

\* First index >= i of s that holds no punctuation mark (the end of [..]+).
RECURSIVE SkipPunct(_, _)
SkipPunct(s, i) ==
    IF i > Len(s) THEN Len(s) + 1
    ELSE IF IsPunct(s[i]) THEN SkipPunct(s, i + 1) ELSE i

\* First index >= i of s that holds no whitespace (the end of \s*).
RECURSIVE SkipSpace(_, _)
SkipSpace(s, i) ==
    IF i > Len(s) THEN Len(s) + 1
    ELSE IF IsSpace(s[i]) THEN SkipSpace(s, i + 1) ELSE i

\* _SENTENCE_SPLIT_RE.split(text) from index i on: the pieces between the
\* matches alternate with the captured matches; pieces may be empty.
RECURSIVE SplitFrom(_, _)
SplitFrom(s, i) ==
    LET p == FirstPunct(s, i) IN
    IF p > Len(s) THEN << SubSeq(s, i, Len(s)) >>
    ELSE LET e == SkipSpace(s, SkipPunct(s, p)) IN
         << SubSeq(s, i, p - 1), SubSeq(s, p, e - 1) >> \o SplitFrom(s, e)

sentence_split(s) == SplitFrom(s, 1)

\* str.strip(): without the leading and the trailing whitespace.
RECURSIVE LStrip(_)
LStrip(s) == IF s # <<>> /\ IsSpace(Head(s)) THEN LStrip(Tail(s)) ELSE s

RECURSIVE RStrip(_)
RStrip(s) ==
    IF s # <<>> /\ IsSpace(s[Len(s)]) THEN RStrip(SubSeq(s, 1, Len(s) - 1)) ELSE s

Strip(s) == RStrip(LStrip(s))

\* First index >= i of s that holds whitespace, Len(s)+1 when none.
RECURSIVE FirstSpace(_, _)
FirstSpace(s, i) ==
    IF i > Len(s) THEN Len(s) + 1
    ELSE IF IsSpace(s[i]) THEN i ELSE FirstSpace(s, i + 1)

\* str.split(): the maximal runs of non-whitespace characters.
RECURSIVE WordsFrom(_, _)
WordsFrom(s, i) ==
    LET b == SkipSpace(s, i) IN
    IF b > Len(s) THEN <<>>
    ELSE LET e == FirstSpace(s, b) IN
         << SubSeq(s, b, e - 1) >> \o WordsFrom(s, e)

str_split(s) == WordsFrom(s, 1)

\* _split_by_characters: windows of max_length characters.
RECURSIVE CharWindows(_, _, _)
CharWindows(s, i, n) ==
    IF i > Len(s) THEN <<>>
    ELSE << SubSeq(s, i, Min2(i + n - 1, Len(s))) >> \o CharWindows(s, i + n, n)

\* Mutant: windows one character too long (text[i : i + max_length + 1]).
split_by_characters_wide(s, n) ==
    IF s = <<>> THEN <<>> ELSE CharWindows(s, 1, n + 1)

\* A variant that keeps only the windows of full length.
split_by_characters_full_windows(s, n) ==
    IF s = <<>> THEN <<>>
    ELSE SelectSeq(CharWindows(s, 1, n), LAMBDA w : Len(w) = n)

split_by_characters(s, n) == IF s = <<>> THEN <<>> ELSE CharWindows(s, 1, n)

\* The loop of _split_by_words over words[i..], with the chunks emitted so
\* far and the running current_chunk; the trailing append is at the end.
RECURSIVE WordLoop(_, _, _, _, _)
WordLoop(words, i, chunks, current_chunk, n) ==
    IF i > Len(words)
    THEN IF current_chunk # <<>> THEN Append(chunks, current_chunk) ELSE chunks
    ELSE
      LET word == words[i]
          test_chunk == IF current_chunk # <<>>
                        THEN Strip(current_chunk \o <<" ">> \o word)
                        ELSE word
          saved == IF current_chunk # <<>> THEN Append(chunks, current_chunk)
                   ELSE chunks
          word_chunks == split_by_characters(word, n)
      IN IF Len(test_chunk) <= n
         THEN WordLoop(words, i + 1, chunks, test_chunk, n)
         ELSE IF Len(word) > n
              THEN WordLoop(words, i + 1,
                            saved \o SubSeq(word_chunks, 1, Len(word_chunks) - 1),
                            IF word_chunks # <<>>
                            THEN word_chunks[Len(word_chunks)] ELSE <<>>,
                            n)
              ELSE WordLoop(words, i + 1, saved, word, n)

\* Mutant: _split_by_words cuts the text into windows, words or not.
split_by_words_as_characters(s, n) == split_by_characters(s, n)

\* Mutant: _split_by_words without the fallback for a text without words.
split_by_words_no_fallback(s, n) == WordLoop(str_split(s), 1, <<>>, <<>>, n)

split_by_words(s, n) ==
    LET words == str_split(s) IN
    IF words = <<>> THEN split_by_characters(s, n)
    ELSE WordLoop(words, 1, <<>>, <<>>, n)

has_word_boundaries(s) == \E i \in 1..Len(s) : s[i] = " "

ensure_chunk_within_limit(chunk, n) ==
    IF Len(chunk) <= n THEN << chunk >>
    ELSE IF has_word_boundaries(chunk) THEN split_by_words(chunk, n)
    ELSE split_by_characters(chunk, n)

\* Mutant: the accumulation saves current_chunk on overflow even when it
\* is empty.
RECURSIVE Accumulate_saves_empty(_, _, _, _, _)
Accumulate_saves_empty(sentences, i, preliminary_chunks, current_chunk, n) ==
    IF i > Len(sentences)
    THEN IF current_chunk # <<>> THEN Append(preliminary_chunks, current_chunk)
         ELSE preliminary_chunks
    ELSE
      LET sentence == sentences[i] IN
      IF sentence = <<>>
      THEN Accumulate_saves_empty(sentences, i + 1, preliminary_chunks,
                                  current_chunk, n)
      ELSE IF Len(current_chunk) + Len(sentence) <= n
           THEN Accumulate_saves_empty(sentences, i + 1, preliminary_chunks,
                                       current_chunk \o sentence, n)
           ELSE Accumulate_saves_empty(sentences, i + 1,
                                       Append(preliminary_chunks, current_chunk),
                                       sentence, n)

\* Step 2 of chunk_text: greedy accumulation of the split pieces.
RECURSIVE Accumulate(_, _, _, _, _)
Accumulate(sentences, i, preliminary_chunks, current_chunk, n) ==
    IF i > Len(sentences)
    THEN IF current_chunk # <<>> THEN Append(preliminary_chunks, current_chunk)
         ELSE preliminary_chunks
    ELSE
      LET sentence == sentences[i] IN
      IF sentence = <<>>
      THEN Accumulate(sentences, i + 1, preliminary_chunks, current_chunk, n)
      ELSE IF Len(current_chunk) + Len(sentence) <= n
           THEN Accumulate(sentences, i + 1, preliminary_chunks,
                           current_chunk \o sentence, n)
           ELSE Accumulate(sentences, i + 1,
                           IF current_chunk # <<>>
                           THEN Append(preliminary_chunks, current_chunk)
                           ELSE preliminary_chunks,
                           sentence, n)

\* Step 3 of chunk_text: the fallback for the chunks still over the limit.
RECURSIVE Finalize(_, _)
Finalize(preliminary_chunks, n) ==
    IF preliminary_chunks = <<>> THEN <<>>
    ELSE LET chunk == Head(preliminary_chunks) IN
         (IF Len(chunk) <= n THEN << chunk >>
          ELSE ensure_chunk_within_limit(chunk, n))
         \o Finalize(Tail(preliminary_chunks), n)

\* Mutant: chunk_text without the early return of lines 157-158.
chunk_text_no_early_return(s, n) ==
    Finalize(Accumulate(sentence_split(s), 1, <<>>, <<>>, n), n)

chunk_text(s, n) ==
    IF Len(s) <= n THEN << s >>
    ELSE Finalize(Accumulate(sentence_split(s), 1, <<>>, <<>>, n), n)

\* Mutant: the windows are stepped by max_length - 1, and range() with a
\* step of 0 raises ValueError.
split_by_characters_raises_step(s, n) == s # <<>> /\ n - 1 = 0

\* _split_by_characters raises: range(0, len(text), max_length) with a
\* step of 0 raises ValueError; an empty text returns before it.
split_by_characters_raises(s, n) == s # <<>> /\ n = 0

\* _split_by_words raises when a call of _split_by_characters it makes
\* does: on the text without words, or on a word longer than max_length.
split_by_words_raises(s, n) ==
    LET words == str_split(s) IN
    IF words = <<>> THEN split_by_characters_raises(s, n)
    ELSE \E i \in 1..Len(words) :
            Len(words[i]) > n /\ split_by_characters_raises(words[i], n)

ensure_chunk_within_limit_raises(chunk, n) ==
    /\ Len(chunk) > n
    /\ IF has_word_boundaries(chunk) THEN split_by_words_raises(chunk, n)
       ELSE split_by_characters_raises(chunk, n)

\* chunk_text raises when the fallback of one of its preliminary chunks does.
chunk_text_raises(s, n) ==
    /\ Len(s) > n
    /\ LET preliminary_chunks == Accumulate(sentence_split(s), 1, <<>>, <<>>, n) IN
       \E i \in 1..Len(preliminary_chunks) :
           ensure_chunk_within_limit_raises(preliminary_chunks[i], n)

TextIdle ==
    /\ text = <<>>
    /\ max_length = 1
    /\ final_chunks = <<>>
    /\ tpc = "idle"

\* The caller writes the text, one character at a time.
TypeChar(c) ==
    /\ tpc = "input"
    /\ Len(text) < MaxTextLen
    /\ text' = Append(text, c)
    /\ UNCHANGED <<max_length, final_chunks, tpc>>

\* The call chunk_text(text, max_length).
ChunkText ==
    /\ tpc = "input"
    /\ IF chunk_text_raises(text, max_length)
       THEN /\ tpc' = "raised"
            /\ UNCHANGED final_chunks
       ELSE /\ final_chunks' = chunk_text(text, max_length)
            /\ tpc' = "done"
    /\ UNCHANGED <<text, max_length>>

(***************************************************************************)
(* audio_utils.py: the WAV merger. Byte strings are sequences of 0..255.   *)
(***************************************************************************)
WAV_HEADER_SIZE == 44
WAV_RIFF_HEADER_SIZE == 36
WAV_CHUNK_HEADER_SIZE == 8

MaxBlobs == 2
MaxPayload == 2

RIFF == <<82, 73, 70, 70>>
WAVE == <<87, 65, 86, 69>>
FMT == <<102, 109, 116, 32>>
DATA == <<100, 97, 116, 97>>
LIST == <<76, 73, 83, 84>>

\* Python's slice b[lo:hi] for 0 <= lo (0-based, hi exclusive, clipped).
Slice(b, lo, hi) == SubSeq(b, lo + 1, Min2(hi, Len(b)))

\* b[lo:]
SliceFrom(b, lo) == SubSeq(b, lo + 1, Len(b))

\* struct.pack("<H", v) and struct.pack("<I", v), for v in range.
PackU16(v) == << v % 256, (v \div 256) % 256 >>
PackU32(v) == << v % 256, (v \div 256) % 256, (v \div 65536) % 256,
                 (v \div 16777216) % 256 >>

\* struct.unpack("<H", b)[0] and struct.unpack("<I", b)[0]: -1 stands for
\* struct.error, raised when b has not exactly the size of the format.
UnpackU16(b) == IF Len(b) # 2 THEN -1 ELSE b[1] + 256 * b[2]
UnpackU32(b) ==
    IF Len(b) # 4 THEN -1
    ELSE b[1] + 256 * b[2] + 65536 * b[3] + 16777216 * b[4]

\* Mutant: everything behind the header of the data subchunk is taken.
RECURSIVE DataScan_to_end(_, _)
DataScan_to_end(audio_data, pos) ==
    IF ~ (pos < Len(audio_data) - WAV_CHUNK_HEADER_SIZE) THEN <<>>
    ELSE
      LET chunk_id == Slice(audio_data, pos, pos + 4)
          chunk_size == UnpackU32(Slice(audio_data, pos + 4, pos + 8))
      IN IF chunk_id = DATA
         THEN SliceFrom(audio_data, pos + 8)
         ELSE DataScan_to_end(audio_data, pos + 8 + chunk_size)

\* Lines 45-58, one blob: the bytes it adds to all_audio_data. The while
\* loop walks the subchunks from pos on.
RECURSIVE DataScan(_, _)
DataScan(audio_data, pos) ==
    IF ~ (pos < Len(audio_data) - WAV_CHUNK_HEADER_SIZE) THEN <<>>
    ELSE
      LET chunk_id == Slice(audio_data, pos, pos + 4)
          chunk_size == UnpackU32(Slice(audio_data, pos + 4, pos + 8))
      IN IF chunk_id = DATA
         THEN Slice(audio_data, pos + 8, pos + 8 + chunk_size)
         ELSE DataScan(audio_data, pos + 8 + chunk_size)

ExtractAudio(audio_data) ==
    IF Len(audio_data) >= WAV_HEADER_SIZE /\ Slice(audio_data, 0, 4) = RIFF
    THEN DataScan(audio_data, WAV_RIFF_HEADER_SIZE)
    ELSE audio_data

RECURSIVE AllAudioData(_)
AllAudioData(blobs) ==
    IF blobs = <<>> THEN <<>>
    ELSE ExtractAudio(Head(blobs)) \o AllAudioData(Tail(blobs))

\* Mutant: the RIFF size counts the whole 44-byte header.
BuildWav_riff_size_44(channels, sample_rate, byte_rate, block_align, bits_per_sample, all_audio_data) ==
    LET total_length == Len(all_audio_data)
        file_size == total_length + WAV_HEADER_SIZE
    IN RIFF \o PackU32(file_size) \o WAVE \o FMT \o PackU32(16) \o PackU16(1)
       \o PackU16(channels) \o PackU32(sample_rate) \o PackU32(byte_rate)
       \o PackU16(block_align) \o PackU16(bits_per_sample)
       \o DATA \o PackU32(total_length) \o all_audio_data

\* Mutant: the size of the data subchunk is left at 0.
BuildWav_data_size_zero(channels, sample_rate, byte_rate, block_align, bits_per_sample, all_audio_data) ==
    LET total_length == Len(all_audio_data)
        file_size == total_length + WAV_RIFF_HEADER_SIZE
    IN RIFF \o PackU32(file_size) \o WAVE \o FMT \o PackU32(16) \o PackU16(1)
       \o PackU16(channels) \o PackU32(sample_rate) \o PackU32(byte_rate)
       \o PackU16(block_align) \o PackU16(bits_per_sample)
       \o DATA \o PackU32(0) \o all_audio_data

\* Lines 60-80: the fresh header followed by the collected payload.
BuildWav(channels, sample_rate, byte_rate, block_align, bits_per_sample, all_audio_data) ==
    LET total_length == Len(all_audio_data)
        file_size == total_length + WAV_RIFF_HEADER_SIZE
    IN RIFF \o PackU32(file_size) \o WAVE \o FMT \o PackU32(16) \o PackU16(1)
       \o PackU16(channels) \o PackU32(sample_rate) \o PackU32(byte_rate)
       \o PackU16(block_align) \o PackU16(bits_per_sample)
       \o DATA \o PackU32(total_length) \o all_audio_data

\* merge_wav_binary: [kind |-> "ok", bytes |-> b] when it returns b,
\* [kind |-> "struct.error"] when parsing the first header raises.
merge_wav_binary(blobs) ==
    IF blobs = <<>> THEN [kind |-> "ok", bytes |-> <<>>]
    ELSE
      LET wav_header == Slice(blobs[1], 0, WAV_HEADER_SIZE)
          channels == UnpackU16(Slice(wav_header, 22, 24))
          sample_rate == UnpackU32(Slice(wav_header, 24, 28))
          byte_rate == UnpackU32(Slice(wav_header, 28, 32))
          block_align == UnpackU16(Slice(wav_header, 32, 34))
          bits_per_sample == UnpackU16(Slice(wav_header, 34, 36))
      IN IF -1 \in {channels, sample_rate, byte_rate, block_align,
                    bits_per_sample}
         THEN [kind |-> "struct.error", bytes |-> <<>>]
         ELSE [kind |-> "ok",
               bytes |-> BuildWav(channels, sample_rate, byte_rate,
                                  block_align, bits_per_sample,
                                  AllAudioData(blobs))]

\* The blobs a caller may hand over: canonical 44-byte-header WAV files,
\* WAV files with a LIST subchunk before "data", a RIFF file without a
\* "data" subchunk, truncated files and raw (header-less) payloads.
PayloadBytes == {17, 34}

Payloads == UNION { [1..n -> PayloadBytes] : n \in 0..MaxPayload }

Payload100 == [i \in 1..100 |-> (i % 2) * 17]

Mono16k == [channels |-> 1, sample_rate |-> 16000]
Stereo44k == [channels |-> 2, sample_rate |-> 44100]

FmtFields(f) ==
    PackU16(f.channels) \o PackU32(f.sample_rate)
    \o PackU32(f.sample_rate * f.channels * 2) \o PackU16(f.channels * 2)
    \o PackU16(16)

CanonicalWav(f, payload) ==
    RIFF \o PackU32(Len(payload) + 36) \o WAVE \o FMT \o PackU32(16)
    \o PackU16(1) \o FmtFields(f) \o DATA \o PackU32(Len(payload)) \o payload

ListWav(f, extra, payload) ==
    RIFF \o PackU32(Len(payload) + Len(extra) + 44) \o WAVE \o FMT
    \o PackU32(16) \o PackU16(1) \o FmtFields(f)
    \o LIST \o PackU32(Len(extra)) \o extra
    \o DATA \o PackU32(Len(payload)) \o payload

NoDataWav(f, extra) ==
    RIFF \o PackU32(Len(extra) + 36) \o WAVE \o FMT \o PackU32(16)
    \o PackU16(1) \o FmtFields(f) \o LIST \o PackU32(Len(extra)) \o extra

CanonicalBlobs ==
    { CanonicalWav(Mono16k, p) : p \in Payloads }
    \cup { CanonicalWav(Stereo44k, <<34, 17>>), CanonicalWav(Mono16k, Payload100) }

MalformedBlobs ==
    { NoDataWav(Mono16k, <<1, 2, 3, 4>>),
      SubSeq(CanonicalWav(Mono16k, <<17>>), 1, 20),
      SubSeq(CanonicalWav(Mono16k, <<17>>), 1, 40) }

OtherBlobs ==
    { ListWav(Mono16k, <<1, 2>>, <<17, 34>>), <<34, 17>>, <<>> }

\* A subchunk: its id, its size, its bytes.
Subchunk(id, body) == id \o PackU32(Len(body)) \o body

\* A WAV file with the subchunks `before` in front of its data subchunk and
\* the subchunks `after` behind it.
WavOf(f, before, payload, after) ==
    RIFF
    \o PackU32(28 + Len(Flatten(before)) + 8 + Len(payload) + Len(Flatten(after)))
    \o WAVE \o FMT \o PackU32(16) \o PackU16(1) \o FmtFields(f)
    \o Flatten(before) \o Subchunk(DATA, payload) \o Flatten(after)

\* Files with two subchunks before data, with a subchunk whose bytes hold
\* the letters "data", with a subchunk behind data, and a file that ends
\* two bytes into a data subchunk declared as four.
SubchunkBlobs ==
    { WavOf(Mono16k, << Subchunk(LIST, <<1, 2>>), Subchunk(LIST, <<3>>) >>, <<17, 34>>, <<>>),
      WavOf(Mono16k, << Subchunk(LIST, DATA \o <<1, 2>>) >>, <<34, 34>>, <<>>),
      WavOf(Mono16k, <<>>, <<34, 17>>, << Subchunk(LIST, <<9, 9>>) >>),
      SubSeq(CanonicalWav(Mono16k, <<17, 34, 17, 34>>), 1, 46) }

Blobs == CanonicalBlobs \cup MalformedBlobs \cup OtherBlobs \cup SubchunkBlobs

WavIdle ==
    /\ audio_chunks = <<>>
    /\ merged_wav = [kind |-> "none", bytes |-> <<>>]
    /\ wpc = "idle"

\* The caller collects the per-chunk blobs in order.
AddBlob(b) ==
    /\ wpc = "input"
    /\ Len(audio_chunks) < MaxBlobs
    /\ audio_chunks' = Append(audio_chunks, b)
    /\ UNCHANGED <<merged_wav, wpc>>

\* The call merge_wav_binary(audio_chunks).
MergeWav ==
    /\ wpc = "input"
    /\ merged_wav' = merge_wav_binary(audio_chunks)
    /\ wpc' = "done"
    /\ UNCHANGED audio_chunks

(***************************************************************************)
(* audio_utils.py: the MP3 merger. An MP3 blob is opaque to it: a frame    *)
(* stream, with or without a leading ID3v2 tag.                            *)
(***************************************************************************)
MaxMp3Blobs == 3

ID3 == <<73, 68, 51>>

\* A tag-free frame stream of n bytes, starting with the frame sync FF FB.
Mp3OfLen(n) ==
    [i \in 1..n |-> IF i = 1 THEN 255 ELSE IF i = 2 THEN 251 ELSE (i + n) % 256]

\* A stream behind an ID3v2 tag: the 10-byte header (tag size 0), a frame.
TaggedMp3 == ID3 \o <<4, 0, 0, 0, 0, 0, 0>> \o <<255, 251, 34>>

Mp3Blobs ==
    { <<>>, <<255, 251, 17>>, TaggedMp3, Mp3OfLen(500), Mp3OfLen(700), Mp3OfLen(300) }

\* Mutant: the ID3v2 header of every blob after the first is dropped.
merge_mp3_binary_strip_tags(blobs) ==
    Flatten([i \in 1..Len(blobs) |->
               IF i > 1 /\ Len(blobs[i]) >= 10 /\ SubSeq(blobs[i], 1, 3) = ID3
               THEN SubSeq(blobs[i], 11, Len(blobs[i]))
               ELSE blobs[i]])

\* merge_mp3_binary: b"".join(audio_chunks).
merge_mp3_binary(blobs) == Flatten(blobs)

Mp3Idle ==
    /\ mp3_chunks = <<>>
    /\ merged_mp3 = <<>>
    /\ mpc = "idle"

\* The caller collects the per-chunk MP3 blobs in order.
AddMp3Blob(b) ==
    /\ mpc = "input"
    /\ Len(mp3_chunks) < MaxMp3Blobs
    /\ mp3_chunks' = Append(mp3_chunks, b)
    /\ UNCHANGED <<merged_mp3, mpc>>

\* The call merge_mp3_binary(mp3_chunks).
MergeMp3 ==
    /\ mpc = "input"
    /\ merged_mp3' = merge_mp3_binary(mp3_chunks)
    /\ mpc' = "done"
    /\ UNCHANGED mp3_chunks

(***************************************************************************)
(* phoneme_utils.py: the phoneme merger. A chunk is None, or a dict with   *)
(* the keys in "keys"; times are integers.                                 *)
(***************************************************************************)
MaxChunks == 3
MaxTotalPhonemes == 3

DurVals == {2, 3}
TimeVals == {0, 2, 10}

SymbolOf(d) == IF d = 2 THEN "a" ELSE "b"

AllKeys == {"symbols", "durations_seconds", "start_times_seconds"}

NoneChunk ==
    [kind |-> "None", keys |-> {}, symbols |-> <<>>,
     durations_seconds |-> <<>>, start_times_seconds |-> <<>>]

EmptyDict == [NoneChunk EXCEPT !.kind = "dict"]

Dict(syms, durs, starts) ==
    [kind |-> "dict", keys |-> AllKeys, symbols |-> syms,
     durations_seconds |-> durs, start_times_seconds |-> starts]

NonDecreasing(s) == \A i \in 1..(Len(s) - 1) : s[i] <= s[i + 1]

\* The well-formed chunks of n phonemes.
ChunksOfLen(n) ==
    { Dict([i \in 1..n |-> SymbolOf(durs[i])], durs, starts) :
        durs \in [1..n -> DurVals],
        starts \in { st \in [1..n -> TimeVals] : NonDecreasing(st) } }

PhonemeCount(c) == Len(c.durations_seconds)

RECURSIVE TotalPhonemes(_)
TotalPhonemes(cs) ==
    IF cs = <<>> THEN 0 ELSE PhonemeCount(Head(cs)) + TotalPhonemes(Tail(cs))

\* phoneme_data.get(key, [])
Get(d, key) == IF key \in d.keys THEN d[key] ELSE <<>>

\* "not phoneme_data": None or a dict without keys.
Falsy(d) == d.kind = "None" \/ d.keys = {}

EmptyMerged ==
    [symbols |-> <<>>, durations_seconds |-> <<>>, start_times_seconds |-> <<>>]

\* Mutant: a missing chunk resets first_chunk_start_time to None.
RECURSIVE MergeLoop_forgets_first(_, _, _, _, _, _)
MergeLoop_forgets_first(chunks, i, m, has_first, first_chunk_start_time, offset) ==
    IF i > Len(chunks) THEN m
    ELSE
      LET phoneme_data == chunks[i] IN
      IF Falsy(phoneme_data)
      THEN MergeLoop_forgets_first(chunks, i + 1, m, FALSE, 0, offset)
      ELSE
        LET symbols == Get(phoneme_data, "symbols")
            durations == Get(phoneme_data, "durations_seconds")
            m1 == [m EXCEPT !.symbols = @ \o symbols,
                            !.durations_seconds = @ \o durations]
            original == Get(phoneme_data, "start_times_seconds")
        IN IF original = <<>>
           THEN MergeLoop_forgets_first(chunks, i + 1, m1, has_first,
                          first_chunk_start_time, offset)
           ELSE
             LET base == IF has_first THEN first_chunk_start_time
                         ELSE original[1]
                 adjusted == IF ~ has_first
                             THEN [k \in 1..Len(original) |-> original[k] - base]
                             ELSE [k \in 1..Len(original) |->
                                     (original[k] - base) + offset]
                 m2 == [m1 EXCEPT !.start_times_seconds = @ \o adjusted]
             IN MergeLoop_forgets_first(chunks, i + 1, m2, TRUE, base,
                          IF durations # <<>> THEN offset + SumSeq(durations)
                          ELSE offset)

\* Mutant: symbols and durations are put in front of the merged lists.
RECURSIVE MergeLoop_prepends(_, _, _, _, _, _)
MergeLoop_prepends(chunks, i, m, has_first, first_chunk_start_time, offset) ==
    IF i > Len(chunks) THEN m
    ELSE
      LET phoneme_data == chunks[i] IN
      IF Falsy(phoneme_data)
      THEN MergeLoop_prepends(chunks, i + 1, m, has_first, first_chunk_start_time, offset)
      ELSE
        LET symbols == Get(phoneme_data, "symbols")
            durations == Get(phoneme_data, "durations_seconds")
            m1 == [m EXCEPT !.symbols = symbols \o @,
                            !.durations_seconds = durations \o @]
            original == Get(phoneme_data, "start_times_seconds")
        IN IF original = <<>>
           THEN MergeLoop_prepends(chunks, i + 1, m1, has_first,
                          first_chunk_start_time, offset)
           ELSE
             LET base == IF has_first THEN first_chunk_start_time
                         ELSE original[1]
                 adjusted == IF ~ has_first
                             THEN [k \in 1..Len(original) |-> original[k] - base]
                             ELSE [k \in 1..Len(original) |->
                                     (original[k] - base) + offset]
                 m2 == [m1 EXCEPT !.start_times_seconds = @ \o adjusted]
             IN MergeLoop_prepends(chunks, i + 1, m2, TRUE, base,
                          IF durations # <<>> THEN offset + SumSeq(durations)
                          ELSE offset)

\* Mutant: the offset of the next chunk is the last adjusted start time.
RECURSIVE MergeLoop_offset_last_start(_, _, _, _, _, _)
MergeLoop_offset_last_start(chunks, i, m, has_first, first_chunk_start_time, offset) ==
    IF i > Len(chunks) THEN m
    ELSE
      LET phoneme_data == chunks[i] IN
      IF Falsy(phoneme_data)
      THEN MergeLoop_offset_last_start(chunks, i + 1, m, has_first, first_chunk_start_time, offset)
      ELSE
        LET symbols == Get(phoneme_data, "symbols")
            durations == Get(phoneme_data, "durations_seconds")
            m1 == [m EXCEPT !.symbols = @ \o symbols,
                            !.durations_seconds = @ \o durations]
            original == Get(phoneme_data, "start_times_seconds")
        IN IF original = <<>>
           THEN MergeLoop_offset_last_start(chunks, i + 1, m1, has_first,
                          first_chunk_start_time, offset)
           ELSE
             LET base == IF has_first THEN first_chunk_start_time
                         ELSE original[1]
                 adjusted == IF ~ has_first
                             THEN [k \in 1..Len(original) |-> original[k] - base]
                             ELSE [k \in 1..Len(original) |->
                                     (original[k] - base) + offset]
                 m2 == [m1 EXCEPT !.start_times_seconds = @ \o adjusted]
             IN MergeLoop_offset_last_start(chunks, i + 1, m2, TRUE, base,
                          adjusted[Len(adjusted)])

\* The loop of merge_phoneme_data over chunks[i..]: m is the merged dict,
\* has_first tells first_chunk_start_time is not None, offset is
\* current_time_offset.
RECURSIVE MergeLoop(_, _, _, _, _, _)
MergeLoop(chunks, i, m, has_first, first_chunk_start_time, offset) ==
    IF i > Len(chunks) THEN m
    ELSE
      LET phoneme_data == chunks[i] IN
      IF Falsy(phoneme_data)
      THEN MergeLoop(chunks, i + 1, m, has_first, first_chunk_start_time, offset)
      ELSE
        LET symbols == Get(phoneme_data, "symbols")
            durations == Get(phoneme_data, "durations_seconds")
            m1 == [m EXCEPT !.symbols = @ \o symbols,
                            !.durations_seconds = @ \o durations]
            original == Get(phoneme_data, "start_times_seconds")
        IN IF original = <<>>
           THEN MergeLoop(chunks, i + 1, m1, has_first,
                          first_chunk_start_time, offset)
           ELSE
             LET base == IF has_first THEN first_chunk_start_time
                         ELSE original[1]
                 adjusted == IF ~ has_first
                             THEN [k \in 1..Len(original) |-> original[k] - base]
                             ELSE [k \in 1..Len(original) |->
                                     (original[k] - base) + offset]
                 m2 == [m1 EXCEPT !.start_times_seconds = @ \o adjusted]
             IN MergeLoop(chunks, i + 1, m2, TRUE, base,
                          IF durations # <<>> THEN offset + SumSeq(durations)
                          ELSE offset)

merge_phoneme_data(chunks) ==
    IF chunks = <<>> THEN EmptyMerged
    ELSE MergeLoop(chunks, 1, EmptyMerged, FALSE, 0, 0)

PhonemeIdle ==
    /\ phoneme_chunks = <<>>
    /\ merged = EmptyMerged
    /\ ppc = "idle"

\* The caller collects the per-chunk phoneme data in order.
AddPhonemeChunk(c) ==
    /\ ppc = "input"
    /\ Len(phoneme_chunks) < MaxChunks
    /\ TotalPhonemes(phoneme_chunks) + PhonemeCount(c) <= MaxTotalPhonemes
    /\ phoneme_chunks' = Append(phoneme_chunks, c)
    /\ UNCHANGED <<merged, ppc>>

\* The call merge_phoneme_data(phoneme_chunks).
MergePhonemes ==
    /\ ppc = "input"
    /\ merged' = merge_phoneme_data(phoneme_chunks)
    /\ ppc' = "done"
    /\ UNCHANGED phoneme_chunks

(***************************************************************************)
(* phoneme_utils.py: adjust_phoneme_timing. Python passes the dict by      *)
(* reference, so the call yields the returned dict and the state in which  *)
(* it leaves the caller's dict.                                            *)
(***************************************************************************)
OffsetVals == {-2, 0, 7}

\* A dict without the key start_times_seconds.
WithoutStartTimes(d) ==
    [d EXCEPT !.keys = {"symbols", "durations_seconds"},
              !.start_times_seconds = <<>>]

AdjustInputs ==
    LET full == UNION { ChunksOfLen(n) : n \in 0..MaxTotalPhonemes }
    IN full \cup {EmptyDict} \cup { WithoutStartTimes(d) : d \in full }

Shifted(times, by) == [k \in 1..Len(times) |-> times[k] + by]

\* Mutant: the start times are shifted in the caller's dict itself.
adjust_phoneme_timing_in_place(phoneme_data, by) ==
    LET shifted ==
          IF "start_times_seconds" \in phoneme_data.keys
             /\ phoneme_data.start_times_seconds # <<>>
          THEN [phoneme_data EXCEPT
                  !.start_times_seconds = Shifted(phoneme_data.start_times_seconds, by)]
          ELSE phoneme_data
    IN [returned |-> shifted, input |-> shifted]

\* adjust_phoneme_timing(phoneme_data, offset): a shallow copy whose
\* start_times_seconds, when present and not empty, is a new shifted list.
adjust_phoneme_timing(phoneme_data, by) ==
    LET copy == phoneme_data
        returned ==
          IF "start_times_seconds" \in copy.keys /\ copy.start_times_seconds # <<>>
          THEN [copy EXCEPT
                  !.start_times_seconds = Shifted(phoneme_data.start_times_seconds, by)]
          ELSE copy
    IN [returned |-> returned, input |-> phoneme_data]

AdjustIdle ==
    /\ adj_data = EmptyDict
    /\ adj_offset = 0
    /\ adj_result = EmptyDict
    /\ apc = "idle"

\* The call adjust_phoneme_timing(adj_data, adj_offset).
AdjustTiming ==
    /\ apc = "input"
    /\ adj_result' = adjust_phoneme_timing(adj_data, adj_offset).returned
    /\ adj_data' = adjust_phoneme_timing(adj_data, adj_offset).input
    /\ apc' = "done"
    /\ UNCHANGED adj_offset

(***************************************************************************)
(* text_utils.py: the NDJSON extractor. The input string is the lines      *)
(* joined by "\n"; a line is a complete JSON text or no JSON at all, and   *)
(* base64 text is a sequence of sextets, 64 standing for the pad "=".      *)
(***************************************************************************)
MaxLines == 3

\* "QUJD" and "QQ==" decode to "ABC" and "A"; "QUJ" has incorrect padding.
B64Texts == { <<16, 20, 9, 3>>, <<16, 16, 64, 64>>, <<16, 20, 9>> }

Sextet(c) == IF c = 64 THEN 0 ELSE c

Pads(q) == Cardinality({ i \in 1..4 : q[i] = 64 })

DecodeQuad(q) ==
    LET v == Sextet(q[1]) * 262144 + Sextet(q[2]) * 4096
             + Sextet(q[3]) * 64 + Sextet(q[4])
    IN SubSeq(<< v \div 65536, (v \div 256) % 256, v % 256 >>, 1, 3 - Pads(q))

RECURSIVE DecodeQuads(_)
DecodeQuads(s) ==
    IF s = <<>> THEN <<>>
    ELSE DecodeQuad(SubSeq(s, 1, 4)) \o DecodeQuads(SubSeq(s, 5, Len(s)))

\* base64.b64decode(x): None is not bytes-like (TypeError); text whose
\* length is no multiple of 4 has incorrect padding (binascii.Error).
b64decode(x) ==
    IF x.isnull THEN [kind |-> "raise", exc |-> "TypeError", bytes |-> <<>>]
    ELSE IF Len(x.b64) % 4 # 0
         THEN [kind |-> "raise", exc |-> "binascii.Error", bytes |-> <<>>]
         ELSE [kind |-> "ok", exc |-> "", bytes |-> DecodeQuads(x.b64)]

\* The lines of an input. json: "object" (a JSON object), "scalar" (a number,
\* true, false or null), "string" (a JSON string), "invalid" (no JSON),
\* "blank" (whitespace only).
JsonObject(hasaudio, isnull, b64) ==
    [json |-> "object", hasaudio |-> hasaudio, isnull |-> isnull, b64 |-> b64]

OtherLine(kind) ==
    [json |-> kind, hasaudio |-> FALSE, isnull |-> FALSE, b64 |-> <<>>]

NdLines ==
    { JsonObject(TRUE, FALSE, t) : t \in B64Texts }
    \cup { JsonObject(TRUE, TRUE, <<>>), JsonObject(FALSE, FALSE, <<>>) }
    \cup { OtherLine(k) : k \in {"scalar", "string", "invalid", "blank"} }

\* json.loads(line) raises JSONDecodeError
IsDecodeError(line) == line.json \in {"invalid", "blank"}

NonBlank(lines) == SelectSeq(lines, LAMBDA l : l.json # "blank")

\* Lines 204-209 on the parsed value: "return" with the decoded bytes,
\* "raise" with the exception that leaves the function, or "pass".
\* ("audio_base64" in data) raises TypeError for a scalar and is False for
\* a JSON string that does not contain the word.
SingleObjectTry(lines) ==
    LET nb == NonBlank(lines) IN
    IF Len(nb) # 1 \/ IsDecodeError(nb[1])
    THEN [kind |-> "pass", exc |-> "", bytes |-> <<>>]
    ELSE LET data == nb[1] IN
         IF data.json = "scalar"
         THEN [kind |-> "raise", exc |-> "TypeError", bytes |-> <<>>]
         ELSE IF data.json = "object" /\ data.hasaudio
              THEN LET d == b64decode(data) IN
                   IF d.kind = "ok" THEN [d EXCEPT !.kind = "return"] ELSE d
              ELSE [kind |-> "pass", exc |-> "", bytes |-> <<>>]

\* Lines 217-222, one line: the bytes it adds to audio_data; every
\* exception is caught and the line skipped.
LineAudio(line) ==
    IF line.json = "blank" \/ IsDecodeError(line) THEN <<>>
    ELSE IF line.json = "scalar" THEN <<>>
    ELSE IF line.json = "object" /\ line.hasaudio
         THEN LET d == b64decode(line) IN
              IF d.kind = "ok" THEN d.bytes ELSE <<>>
         ELSE <<>>

RECURSIVE LinesAudio(_)
LinesAudio(lines) ==
    IF lines = <<>> THEN <<>>
    ELSE LineAudio(Head(lines)) \o LinesAudio(Tail(lines))

extract_audio_from_ndjson(lines) ==
    LET first == SingleObjectTry(lines) IN
    IF first.kind = "return" THEN [first EXCEPT !.kind = "ok"]
    ELSE IF first.kind = "raise" THEN first
    ELSE [kind |-> "ok", exc |-> "", bytes |-> LinesAudio(lines)]

NdjsonIdle ==
    /\ ndjson_lines = <<>>
    /\ nd_result = [kind |-> "none", exc |-> "", bytes |-> <<>>]
    /\ npc = "idle"

\* The provider's response text arrives, one line at a time.
AddLine(l) ==
    /\ npc = "input"
    /\ Len(ndjson_lines) < MaxLines
    /\ ndjson_lines' = Append(ndjson_lines, l)
    /\ UNCHANGED <<nd_result, npc>>

\* The call extract_audio_from_ndjson(ndjson_str).
ExtractNdjson ==
    /\ npc = "input"
    /\ nd_result' = extract_audio_from_ndjson(ndjson_lines)
    /\ npc' = "done"
    /\ UNCHANGED ndjson_lines

(***************************************************************************)
(* audio_utils.py: extract_audio_from_response_async on one response whose *)
(* result exposes aiter_bytes. Each task is one call; a call runs without  *)
(* interruption between two awaits, and every step of "async for" awaits.  *)
(* The transport is the caller's: its stream is read through one shared    *)
(* cursor, the read at position fail_at raises (0: none does) and leaves   *)
(* the stream broken, and a guarded transport (httpx) refuses a second     *)
(* aiter_bytes() with StreamConsumed.                                      *)
(***************************************************************************)
MaxStreamChunks == 2
NumTasks == 2

Tasks == 1..NumTasks

StreamOfLen(n) == [i \in 1..n |-> << i >>]

NotCached == [cached |-> FALSE, bytes |-> <<>>]

FullData == Flatten(stream)

ResponseIdle ==
    /\ stream = <<>>
    /\ content = NotCached
    /\ stream_pos = 0
    /\ stream_broken = FALSE
    /\ fail_at = 0
    /\ guarded = FALSE
    /\ iter_count = 0
    /\ rpc = [t \in Tasks |-> "idle"]
    /\ rchunks = [t \in Tasks |-> <<>>]
    /\ rret = [t \in Tasks |-> <<>>]

\* Mutant: the call without the cache check of lines 178-179.
Call_no_cache_check(t) ==
    /\ rpc[t] = "ready"
    /\ IF guarded /\ iter_count >= 1
       THEN /\ rpc' = [rpc EXCEPT ![t] = "failed"]
            /\ UNCHANGED <<rret, iter_count>>
       ELSE /\ rpc' = [rpc EXCEPT ![t] = "iter"]
            /\ iter_count' = iter_count + 1
            /\ UNCHANGED rret
    /\ UNCHANGED <<stream, content, stream_pos, stream_broken, fail_at,
                   guarded, rchunks>>

\* Lines 177-184 up to the first await: the cache check, then the call of
\* aiter_bytes().
Call(t) ==
    /\ rpc[t] = "ready"
    /\ IF content.cached
       THEN /\ rpc' = [rpc EXCEPT ![t] = "done"]
            /\ rret' = [rret EXCEPT ![t] = content.bytes]
            /\ UNCHANGED iter_count
       ELSE IF guarded /\ iter_count >= 1
            THEN /\ rpc' = [rpc EXCEPT ![t] = "failed"]
                 /\ UNCHANGED <<rret, iter_count>>
            ELSE /\ rpc' = [rpc EXCEPT ![t] = "iter"]
                 /\ iter_count' = iter_count + 1
                 /\ UNCHANGED rret
    /\ UNCHANGED <<stream, content, stream_pos, stream_broken, fail_at,
                   guarded, rchunks>>

\* Mutant: the chunks read so far are cached when the read raises (the
\* assignment of line 188 moved into a "finally").
IterStep_cache_in_finally(t) ==
    /\ rpc[t] = "iter"
    /\ IF stream_broken \/ fail_at = stream_pos + 1
       THEN /\ rpc' = [rpc EXCEPT ![t] = "failed"]
            /\ stream_broken' = TRUE
            /\ content' = [cached |-> TRUE, bytes |-> Flatten(rchunks[t])]
            /\ UNCHANGED <<stream_pos, rchunks, rret>>
       ELSE IF stream_pos < Len(stream)
            THEN /\ rchunks' = [rchunks EXCEPT ![t] = Append(@, stream[stream_pos + 1])]
                 /\ stream_pos' = stream_pos + 1
                 /\ UNCHANGED <<content, stream_broken, rpc, rret>>
            ELSE /\ content' = [cached |-> TRUE, bytes |-> Flatten(rchunks[t])]
                 /\ rret' = [rret EXCEPT ![t] = Flatten(rchunks[t])]
                 /\ rpc' = [rpc EXCEPT ![t] = "done"]
                 /\ UNCHANGED <<stream_pos, stream_broken, rchunks>>
    /\ UNCHANGED <<stream, fail_at, guarded, iter_count>>

\* Lines 184-189, one resumption of "async for": the read raises and the
\* exception leaves the call, or a chunk is appended, or the iteration
\* ends and the joined chunks are cached and returned.
IterStep(t) ==
    /\ rpc[t] = "iter"
    /\ IF stream_broken \/ fail_at = stream_pos + 1
       THEN /\ rpc' = [rpc EXCEPT ![t] = "failed"]
            /\ stream_broken' = TRUE
            /\ UNCHANGED <<content, stream_pos, rchunks, rret>>
       ELSE IF stream_pos < Len(stream)
            THEN /\ rchunks' = [rchunks EXCEPT ![t] = Append(@, stream[stream_pos + 1])]
                 /\ stream_pos' = stream_pos + 1
                 /\ UNCHANGED <<content, stream_broken, rpc, rret>>
            ELSE /\ content' = [cached |-> TRUE, bytes |-> Flatten(rchunks[t])]
                 /\ rret' = [rret EXCEPT ![t] = Flatten(rchunks[t])]
                 /\ rpc' = [rpc EXCEPT ![t] = "done"]
                 /\ UNCHANGED <<stream_pos, stream_broken, rchunks>>
    /\ UNCHANGED <<stream, fail_at, guarded, iter_count>>

\* A call made while no other call is under way.
CallSeq(t) ==
    /\ \A u \in Tasks : rpc[u] # "iter"
    /\ Call(t)

(***************************************************************************)
(* audio_utils.py: extract_audio_from_response, and the read() fallback of *)
(* extract_audio_from_response_async, on a response whose result exposes   *)
(* read and no aiter_bytes. The result object is the caller's: a plain     *)
(* stream (a file object) hands out the bytes behind its cursor, a caching *)
(* one (httpx.Response) reads its stream once and keeps the bytes in       *)
(* _content, an attribute it does not have before.                         *)
(***************************************************************************)
MaxReadBytes == 2
MaxReadCalls == 3

ReadStreams == UNION { [1..n -> {1, 2}] : n \in 0..MaxReadBytes }

ReadIdle ==
    /\ rs_caching = FALSE
    /\ rs_data = <<>>
    /\ rs_pos = 0
    /\ rs_content = NotCached
    /\ rs_reads = 0
    /\ rs_log = <<>>

\* response.result.read(): the bytes returned, by the function `fn`.
ResultRead(fn) ==
    IF rs_caching
    THEN IF rs_content.cached
         THEN /\ rs_log' = Append(rs_log, [fn |-> fn, bytes |-> rs_content.bytes])
              /\ UNCHANGED <<rs_pos, rs_content, rs_reads>>
         ELSE /\ rs_log' = Append(rs_log, [fn |-> fn, bytes |-> SubSeq(rs_data, rs_pos + 1, Len(rs_data))])
              /\ rs_content' = [cached |-> TRUE, bytes |-> SubSeq(rs_data, rs_pos + 1, Len(rs_data))]
              /\ rs_pos' = Len(rs_data)
              /\ rs_reads' = rs_reads + 1
    ELSE /\ rs_log' = Append(rs_log, [fn |-> fn, bytes |-> SubSeq(rs_data, rs_pos + 1, Len(rs_data))])
         /\ rs_pos' = Len(rs_data)
         /\ rs_reads' = rs_reads + 1
         /\ UNCHANGED rs_content

\* extract_audio_from_response(response): lines 206-207.
ExtractSync ==
    /\ Len(rs_log) < MaxReadCalls
    /\ ResultRead("sync")
    /\ UNCHANGED <<rs_caching, rs_data>>

\* extract_audio_from_response_async(response): the cache check of lines
\* 178-179, no aiter_bytes, then the read() of lines 192-193.
ExtractAsyncFallback ==
    /\ Len(rs_log) < MaxReadCalls
    /\ IF rs_content.cached
       THEN /\ rs_log' = Append(rs_log, [fn |-> "async", bytes |-> rs_content.bytes])
            /\ UNCHANGED <<rs_pos, rs_content, rs_reads>>
       ELSE ResultRead("async")
    /\ UNCHANGED <<rs_caching, rs_data>>

(***************************************************************************)
(* audio_utils.py: the header-stripping primitives remove_wav_header and   *)
(* remove_mp3_header, each applied to one blob.                            *)
(***************************************************************************)
MP3_ID3V2_HEADER_SIZE == 10
MP3_ID3V1_TAG_POS == 128
MaxTagSize == 3

TAG == <<84, 65, 71>>

\* The bitwise or of two naturals.
RECURSIVE BitOr(_, _)
BitOr(a, b) ==
    IF a = 0 THEN b
    ELSE IF b = 0 THEN a
    ELSE (IF a % 2 = 1 \/ b % 2 = 1 THEN 1 ELSE 0) + 2 * BitOr(a \div 2, b \div 2)

\* (d[6] << 21) | (d[7] << 14) | (d[8] << 7) | d[9], d indexed from 0.
TagSize(d) ==
    BitOr(BitOr(d[7] * 2097152, d[8] * 16384), BitOr(d[9] * 128, d[10]))

\* Lines 127-134: the ID3v2 tag at the beginning.
StripId3v2(d) ==
    IF Len(d) >= MP3_ID3V2_HEADER_SIZE /\ Slice(d, 0, 3) = ID3
    THEN LET header_size ==
               IF (d[6] \div 16) % 2 = 1
               THEN MP3_ID3V2_HEADER_SIZE + MP3_ID3V2_HEADER_SIZE
               ELSE MP3_ID3V2_HEADER_SIZE
         IN SliceFrom(d, header_size + TagSize(d))
    ELSE d

\* Lines 137-141: the ID3v1 tag at the end.
StripId3v1(d) ==
    IF Len(d) >= MP3_ID3V1_TAG_POS
       /\ SubSeq(d, Len(d) - MP3_ID3V1_TAG_POS + 1, Len(d) - MP3_ID3V1_TAG_POS + 3) = TAG
    THEN SubSeq(d, 1, Len(d) - MP3_ID3V1_TAG_POS)
    ELSE d

\* Mutant: the footer flag of byte 5 is ignored.
remove_mp3_header_no_footer(mp3_data) ==
    StripId3v1(IF Len(mp3_data) >= MP3_ID3V2_HEADER_SIZE /\ Slice(mp3_data, 0, 3) = ID3
               THEN SliceFrom(mp3_data, MP3_ID3V2_HEADER_SIZE + TagSize(mp3_data))
               ELSE mp3_data)

remove_mp3_header(mp3_data) == StripId3v1(StripId3v2(mp3_data))

\* bytes.find(pat) from index i on: the first index of pat, -1 when absent.
RECURSIVE FindFrom(_, _, _)
FindFrom(b, pat, i) ==
    IF i + Len(pat) > Len(b) THEN -1
    ELSE IF Slice(b, i, i + Len(pat)) = pat THEN i
    ELSE FindFrom(b, pat, i + 1)

\* Mutant: the payload is taken to start behind a 44-byte header.
remove_wav_header_fixed(audio_data) ==
    IF Len(audio_data) >= WAV_HEADER_SIZE /\ Slice(audio_data, 0, 4) = RIFF
    THEN SliceFrom(audio_data, WAV_HEADER_SIZE)
    ELSE audio_data

remove_wav_header(audio_data) ==
    IF Len(audio_data) >= WAV_HEADER_SIZE /\ Slice(audio_data, 0, 4) = RIFF
    THEN LET data_pos == FindFrom(audio_data, DATA, 0) IN
         IF data_pos > 0 THEN SliceFrom(audio_data, data_pos + 8)
         ELSE audio_data
    ELSE audio_data

\* An ID3v2 header: version 2.4.0, the flags byte, the four size bytes.
Id3v2Header(flags, b6, b7, b8, b9) == ID3 \o <<4, 0, flags>> \o <<b6, b7, b8, b9>>

Filler(n) == [i \in 1..n |-> 100 + (i % 50)]

\* The beginnings of an MP3 blob: no tag; a tag of n bytes, with and
\* without a footer; a tag whose size bytes 1 and 128 are not syncsafe; a
\* blob cut inside the tag header.
Id3v2Parts ==
    { <<>>, <<73, 68, 51, 4>>, Id3v2Header(0, 0, 0, 1, 128) \o Filler(128) }
    \cup { Id3v2Header(0, 0, 0, 0, n) \o Filler(n) : n \in 0..MaxTagSize }
    \cup { Id3v2Header(16, 0, 0, 0, n) \o Filler(n + 10) : n \in 0..MaxTagSize }

FrameParts == { <<>>, <<255, 251, 17>>, Mp3OfLen(200) }

Id3v1Tag == TAG \o [i \in 1..125 |-> 0]

Mp3StripInputs ==
    { v2 \o frames \o v1 :
        v2 \in Id3v2Parts, frames \in FrameParts, v1 \in {<<>>, Id3v1Tag} }

\* WAV blobs: those of the merger, and files whose LIST subchunk or whose
\* payload holds the letters "data".
WavStripInputs ==
    Blobs \cup { ListWav(Mono16k, DATA \o <<1, 2>>, <<17, 34>>),
                 CanonicalWav(Mono16k, <<17>> \o DATA \o <<34>>),
                 NoDataWav(Mono16k, <<1, 2, 3, 4, 5, 6, 7, 8>>) }

StripIdle ==
    /\ strip_data = <<>>
    /\ strip_fn = "idle"
    /\ strip_result = <<>>

\* The call remove_mp3_header(strip_data).
RemoveMp3Header ==
    /\ strip_fn = "none"
    /\ strip_result' = remove_mp3_header(strip_data)
    /\ strip_fn' = "remove_mp3_header"
    /\ UNCHANGED strip_data

\* The call remove_wav_header(strip_data).
RemoveWavHeader ==
    /\ strip_fn = "none"
    /\ strip_result' = remove_wav_header(strip_data)
    /\ strip_fn' = "remove_wav_header"
    /\ UNCHANGED strip_data

(***************************************************************************)
(* RealTimeAudioPlayer of custom_test/realtime_tts_player.py: the producer *)
(* (start_player, add_audio_chunk, stop_player) and the feeder thread      *)
(* (audio_feeder_worker) that moves queued chunks into audio_stream.       *)
(* stop_player is a sequence of steps the feeder thread interleaves with;  *)
(* add_audio_chunk only appends to the queue the feeder takes the head of, *)
(* so it is one step.  accepted is the history of the bytes handed to the  *)
(* accumulator.  One playing session is modelled.                          *)
(***************************************************************************)
MaxPcmBytes == 4

\* The module imports sounddevice and numpy unconditionally before the
\* guarded import, so the class only exists with AUDIO_AVAILABLE = True.
AUDIO_AVAILABLE == TRUE

\* Python's None in sample_rate, channels and sample_width.
Unset == -1

NoSettings ==
    [sample_rate |-> Unset, channels |-> Unset, sample_width |-> Unset]

DefaultSettings == [sample_rate |-> 44100, channels |-> 1, sample_width |-> 2]

InitialMinChunkSize == 4096

\* int(0.1 * sample_rate * sample_width * channels)
MinChunkSize(s) == (s.sample_rate * s.sample_width * s.channels) \div 10

\* Queue items: a chunk of bytes, or the None that ends the feeder.
ChunkItem(b) == [kind |-> "chunk", data |-> b]
NoneItem == [kind |-> "none", data |-> <<>>]

\* The header a stream begins with: PCM, mono, 10 Hz, bits per sample as
\* given, sizes left at 0; with or without a LIST subchunk before "data".
StreamHeader(bits) ==
    RIFF \o PackU32(0) \o WAVE \o FMT \o PackU32(16) \o PackU16(1)
    \o PackU16(1) \o PackU32(10) \o PackU32(10 * (bits \div 8))
    \o PackU16(bits \div 8) \o PackU16(bits) \o DATA \o PackU32(0)

StreamHeaderWithList(bits) ==
    SubSeq(StreamHeader(bits), 1, 36) \o Subchunk(LIST, <<1, 2>>)
    \o DATA \o PackU32(0)

\* PCM bytes are numbered in arrival order.
NextPcm(n) == [i \in 1..n |-> Len(accepted) + i]

\* The chunks the producer may hand over next: raw PCM, and, as the first
\* chunk, a header followed by PCM.
ChunkInputs ==
    { h \o NextPcm(n) :
        h \in IF settings.sample_rate = Unset
              THEN {<<>>, StreamHeader(8), StreamHeader(16),
                    StreamHeaderWithList(16)}
              ELSE {<<>>},
        n \in 0..(MaxPcmBytes - Len(accepted)) }

\* The subchunk walk of add_audio_chunk from position pos.
RECURSIVE FindAudioData(_, _)
FindAudioData(chunk_data, pos) ==
    IF pos < Len(chunk_data) - 8
    THEN IF Slice(chunk_data, pos, pos + 4) = DATA
         THEN SliceFrom(chunk_data, pos + 8)
         ELSE FindAudioData(chunk_data,
                  pos + 8 + UnpackU32(Slice(chunk_data, pos + 4, pos + 8)))
    ELSE SliceFrom(chunk_data, 44)

\* The loop of _add_chunk_with_filtering: the stable chunks cut off the
\* accumulator, and what stays in it.
RECURSIVE StableChunks(_, _)
StableChunks(acc, size) ==
    IF Len(acc) >= size
    THEN <<ChunkItem(Slice(acc, 0, size))>>
         \o StableChunks(SliceFrom(acc, size), size)
    ELSE <<>>

RECURSIVE AccumulatorRest(_, _)
AccumulatorRest(acc, size) ==
    IF Len(acc) >= size THEN AccumulatorRest(SliceFrom(acc, size), size)
    ELSE acc

add_chunk_with_filtering(chunk_data, size) ==
    IF Len(chunk_data) = 0
    THEN UNCHANGED <<chunk_accumulator, audio_queue, accepted>>
    ELSE LET acc == chunk_accumulator \o chunk_data
         IN /\ audio_queue' = audio_queue \o StableChunks(acc, size)
            /\ chunk_accumulator' = AccumulatorRest(acc, size)
            /\ accepted' = accepted \o chunk_data

\* output_stream after start_streaming_playback.
start_streaming_playback ==
    IF ~AUDIO_AVAILABLE \/ output_stream THEN output_stream ELSE TRUE

PlayerIdle ==
    /\ is_playing = FALSE
    /\ stop_event = FALSE
    /\ audio_queue = <<>>
    /\ chunk_accumulator = <<>>
    /\ audio_stream = <<>>
    /\ settings = NoSettings
    /\ min_chunk_size = InitialMinChunkSize
    /\ output_stream = FALSE
    /\ accepted = <<>>
    /\ feeder = "idle"
    /\ producer = "idle"

\* start_player()
StartPlayer ==
    /\ producer = "ready"
    /\ feeder = "unstarted"
    /\ ~is_playing
    /\ stop_event' = FALSE
    /\ feeder' = "check"
    /\ is_playing' = TRUE
    /\ UNCHANGED <<audio_queue, chunk_accumulator, audio_stream, settings,
                   min_chunk_size, output_stream, accepted, producer>>

\* add_audio_chunk(chunk_data)
AddAudioChunk ==
    /\ producer = "ready"
    /\ \E chunk_data \in ChunkInputs :
         IF ~is_playing
         THEN UNCHANGED <<chunk_accumulator, audio_queue, accepted, settings,
                          min_chunk_size, output_stream>>
         ELSE IF settings.sample_rate = Unset
         THEN IF /\ Len(chunk_data) >= 44
                 /\ Slice(chunk_data, 0, 4) = RIFF
                 /\ Slice(chunk_data, 8, 12) = WAVE
              THEN LET s == [channels |->
                                UnpackU16(Slice(chunk_data, 22, 24)),
                             sample_rate |->
                                UnpackU32(Slice(chunk_data, 24, 28)),
                             sample_width |->
                                UnpackU16(Slice(chunk_data, 34, 36)) \div 8]
                   IN /\ settings' = s
                      /\ min_chunk_size' = MinChunkSize(s)
                      /\ output_stream' = start_streaming_playback
                      /\ add_chunk_with_filtering(
                             FindAudioData(chunk_data, 36), MinChunkSize(s))
              ELSE /\ settings' = DefaultSettings
                   /\ min_chunk_size' = MinChunkSize(DefaultSettings)
                   /\ output_stream' = start_streaming_playback
                   /\ add_chunk_with_filtering(
                          chunk_data, MinChunkSize(DefaultSettings))
         ELSE /\ UNCHANGED <<settings, min_chunk_size, output_stream>>
              /\ add_chunk_with_filtering(chunk_data, min_chunk_size)
    /\ UNCHANGED <<is_playing, stop_event, audio_stream, feeder, producer>>

\* stop_player(), first step: the remainder of the accumulator goes to the
\* queue.
StopFlush ==
    /\ producer = "ready"
    /\ IF Len(chunk_accumulator) > 0
       THEN /\ audio_queue' = audio_queue \o <<ChunkItem(chunk_accumulator)>>
            /\ chunk_accumulator' = <<>>
       ELSE UNCHANGED <<audio_queue, chunk_accumulator>>
    /\ producer' = "flushed"
    /\ UNCHANGED <<is_playing, stop_event, audio_stream, settings,
                   min_chunk_size, output_stream, accepted, feeder>>

\* stop_player(), second step: is_playing = False; stop_event.set()
StopSignal ==
    /\ producer = "flushed"
    /\ is_playing' = FALSE
    /\ stop_event' = TRUE
    /\ producer' = "signalled"
    /\ UNCHANGED <<audio_queue, chunk_accumulator, audio_stream, settings,
                   min_chunk_size, output_stream, accepted, feeder>>

\* stop_player(), third step: audio_queue.put(None)
StopSentinel ==
    /\ producer = "signalled"
    /\ audio_queue' = audio_queue \o <<NoneItem>>
    /\ producer' = "sentinel"
    /\ UNCHANGED <<is_playing, stop_event, chunk_accumulator, audio_stream,
                   settings, min_chunk_size, output_stream, accepted, feeder>>

\* stop_player(), last step: the output stream is closed and the feeder
\* thread is joined, for two seconds at most.
StopJoin ==
    /\ producer = "sentinel"
    /\ output_stream' = FALSE
    /\ producer' = "stopped"
    /\ UNCHANGED <<is_playing, stop_event, audio_queue, chunk_accumulator,
                   audio_stream, settings, min_chunk_size, accepted, feeder>>

\* audio_feeder_worker: the test of the while loop.
FeederCheck ==
    /\ feeder = "check"
    /\ feeder' = IF stop_event THEN "exited" ELSE "get"
    /\ UNCHANGED <<is_playing, stop_event, audio_queue, chunk_accumulator,
                   audio_stream, settings, min_chunk_size, output_stream,
                   accepted, producer>>

\* The bytes of a chunk the feeder writes.
Aligned(s, audio_data) ==
    IF s.sample_width = 2 /\ Len(audio_data) % 2 # 0
    THEN Slice(audio_data, 0, Len(audio_data) - 1)
    ELSE audio_data

\* audio_feeder_worker: the body of the while loop, from
\* audio_queue.get(timeout=0.1) to the write.
FeederGet ==
    /\ feeder = "get"
    /\ IF audio_queue = <<>>
       THEN /\ feeder' = "check"
            /\ UNCHANGED <<audio_queue, audio_stream>>
       ELSE LET item == Head(audio_queue)
            IN IF item.kind = "none"
               THEN /\ feeder' = "exited"
                    /\ audio_queue' = Tail(audio_queue)
                    /\ UNCHANGED audio_stream
               ELSE /\ feeder' = "check"
                    /\ IF ~AUDIO_AVAILABLE
                       THEN /\ audio_queue' = Tail(audio_queue)
                            /\ UNCHANGED audio_stream
                       ELSE IF Unset \in {settings.sample_rate,
                                          settings.channels,
                                          settings.sample_width}
                       THEN /\ audio_queue' = Tail(audio_queue) \o <<item>>
                            /\ UNCHANGED audio_stream
                       ELSE /\ audio_queue' = Tail(audio_queue)
                            /\ audio_stream' =
                                 audio_stream \o Aligned(settings, item.data)
    /\ UNCHANGED <<is_playing, stop_event, chunk_accumulator, settings,
                   min_chunk_size, output_stream, accepted, producer>>

(***************************************************************************)
(* The specifications, one per component.                                  *)
(***************************************************************************)
InitText ==
    /\ text = <<>>
    /\ max_length \in 1..MaxMaxLength
    /\ final_chunks = <<>>
    /\ tpc = "input"
    /\ WavIdle /\ PhonemeIdle /\ NdjsonIdle /\ ResponseIdle /\ Mp3Idle /\ AdjustIdle /\ ReadIdle /\ StripIdle /\ PlayerIdle

NextText ==
    \/ \E c \in Alphabet : TypeChar(c) /\ UNCHANGED <<wav_vars, phoneme_vars, ndjson_vars, response_vars, mp3_vars, adjust_vars, read_vars, strip_vars, player_vars>>
    \/ ChunkText /\ UNCHANGED <<wav_vars, phoneme_vars, ndjson_vars, response_vars, mp3_vars, adjust_vars, read_vars, strip_vars, player_vars>>

SpecText == InitText /\ [][NextText]_vars

InitWav ==
    /\ audio_chunks = <<>>
    /\ merged_wav = [kind |-> "none", bytes |-> <<>>]
    /\ wpc = "input"
    /\ TextIdle /\ PhonemeIdle /\ NdjsonIdle /\ ResponseIdle /\ Mp3Idle /\ AdjustIdle /\ ReadIdle /\ StripIdle /\ PlayerIdle

NextWav ==
    \/ \E b \in Blobs : AddBlob(b) /\ UNCHANGED <<text_vars, phoneme_vars, ndjson_vars, response_vars, mp3_vars, adjust_vars, read_vars, strip_vars, player_vars>>
    \/ MergeWav /\ UNCHANGED <<text_vars, phoneme_vars, ndjson_vars, response_vars, mp3_vars, adjust_vars, read_vars, strip_vars, player_vars>>

SpecWav == InitWav /\ [][NextWav]_vars

InitMp3 ==
    /\ mp3_chunks = <<>>
    /\ merged_mp3 = <<>>
    /\ mpc = "input"
    /\ TextIdle /\ WavIdle /\ PhonemeIdle /\ NdjsonIdle /\ ResponseIdle /\ AdjustIdle /\ ReadIdle /\ StripIdle /\ PlayerIdle

NextMp3 ==
    \/ \E b \in Mp3Blobs : AddMp3Blob(b) /\ UNCHANGED <<text_vars, wav_vars, phoneme_vars, ndjson_vars, response_vars, adjust_vars, read_vars, strip_vars, player_vars>>
    \/ MergeMp3 /\ UNCHANGED <<text_vars, wav_vars, phoneme_vars, ndjson_vars, response_vars, adjust_vars, read_vars, strip_vars, player_vars>>

SpecMp3 == InitMp3 /\ [][NextMp3]_vars

InitPhoneme ==
    /\ phoneme_chunks = <<>>
    /\ merged = EmptyMerged
    /\ ppc = "input"
    /\ TextIdle /\ WavIdle /\ NdjsonIdle /\ ResponseIdle /\ Mp3Idle /\ AdjustIdle /\ ReadIdle /\ StripIdle /\ PlayerIdle

\* The chunks that still fit when `used` phonemes have been handed over.
PhonemeInputs(used) ==
    {NoneChunk, EmptyDict}
    \cup UNION { ChunksOfLen(n) : n \in 0..(MaxTotalPhonemes - used) }

NextPhoneme ==
    \/ \E c \in PhonemeInputs(TotalPhonemes(phoneme_chunks)) : AddPhonemeChunk(c) /\ UNCHANGED <<text_vars, wav_vars, ndjson_vars, response_vars, mp3_vars, adjust_vars, read_vars, strip_vars, player_vars>>
    \/ MergePhonemes /\ UNCHANGED <<text_vars, wav_vars, ndjson_vars, response_vars, mp3_vars, adjust_vars, read_vars, strip_vars, player_vars>>

SpecPhoneme == InitPhoneme /\ [][NextPhoneme]_vars

InitAdjust ==
    /\ adj_data \in AdjustInputs
    /\ adj_offset \in OffsetVals
    /\ adj_result = EmptyDict
    /\ apc = "input"
    /\ TextIdle /\ WavIdle /\ Mp3Idle /\ PhonemeIdle /\ NdjsonIdle /\ ResponseIdle /\ ReadIdle /\ StripIdle /\ PlayerIdle

NextAdjust ==
    AdjustTiming /\ UNCHANGED <<text_vars, wav_vars, mp3_vars, phoneme_vars, ndjson_vars, response_vars, read_vars, strip_vars, player_vars>>

SpecAdjust == InitAdjust /\ [][NextAdjust]_vars

InitNdjson ==
    /\ ndjson_lines = <<>>
    /\ nd_result = [kind |-> "none", exc |-> "", bytes |-> <<>>]
    /\ npc = "input"
    /\ TextIdle /\ WavIdle /\ PhonemeIdle /\ ResponseIdle /\ Mp3Idle /\ AdjustIdle /\ ReadIdle /\ StripIdle /\ PlayerIdle

NextNdjson ==
    \/ \E l \in NdLines : AddLine(l) /\ UNCHANGED <<text_vars, wav_vars, phoneme_vars, response_vars, mp3_vars, adjust_vars, read_vars, strip_vars, player_vars>>
    \/ ExtractNdjson /\ UNCHANGED <<text_vars, wav_vars, phoneme_vars, response_vars, mp3_vars, adjust_vars, read_vars, strip_vars, player_vars>>

SpecNdjson == InitNdjson /\ [][NextNdjson]_vars

InitResponse ==
    /\ stream \in { StreamOfLen(n) : n \in 0..MaxStreamChunks }
    /\ content = NotCached
    /\ stream_pos = 0
    /\ stream_broken = FALSE
    /\ fail_at \in 0..(MaxStreamChunks + 1)
    /\ fail_at <= Len(stream) + 1
    /\ guarded \in BOOLEAN
    /\ iter_count = 0
    /\ rpc = [t \in Tasks |-> "ready"]
    /\ rchunks = [t \in Tasks |-> <<>>]
    /\ rret = [t \in Tasks |-> <<>>]
    /\ TextIdle /\ WavIdle /\ PhonemeIdle /\ NdjsonIdle /\ Mp3Idle /\ AdjustIdle /\ ReadIdle /\ StripIdle /\ PlayerIdle

\* Concurrent callers: any task may take its next step.
NextResponse ==
    \/ \E t \in Tasks : Call(t) /\ UNCHANGED <<text_vars, wav_vars, phoneme_vars, ndjson_vars, mp3_vars, adjust_vars, read_vars, strip_vars, player_vars>>
    \/ \E t \in Tasks : IterStep(t) /\ UNCHANGED <<text_vars, wav_vars, phoneme_vars, ndjson_vars, mp3_vars, adjust_vars, read_vars, strip_vars, player_vars>>

SpecResponse == InitResponse /\ [][NextResponse]_vars

\* Sequential callers: a call starts only after the one before it ended.
NextResponseSeq ==
    \/ \E t \in Tasks : CallSeq(t) /\ UNCHANGED <<text_vars, wav_vars, phoneme_vars, ndjson_vars, mp3_vars, adjust_vars, read_vars, strip_vars, player_vars>>
    \/ \E t \in Tasks : IterStep(t) /\ UNCHANGED <<text_vars, wav_vars, phoneme_vars, ndjson_vars, mp3_vars, adjust_vars, read_vars, strip_vars, player_vars>>

SpecResponseSeq == InitResponse /\ [][NextResponseSeq]_vars

InitRead ==
    /\ rs_caching \in BOOLEAN
    /\ rs_data \in ReadStreams
    /\ rs_pos = 0
    /\ rs_content = NotCached
    /\ rs_reads = 0
    /\ rs_log = <<>>
    /\ TextIdle /\ WavIdle /\ Mp3Idle /\ PhonemeIdle /\ AdjustIdle /\ NdjsonIdle /\ ResponseIdle /\ StripIdle /\ PlayerIdle

NextRead ==
    \/ ExtractSync /\ UNCHANGED <<text_vars, wav_vars, mp3_vars, phoneme_vars, adjust_vars, ndjson_vars, response_vars, strip_vars, player_vars>>
    \/ ExtractAsyncFallback /\ UNCHANGED <<text_vars, wav_vars, mp3_vars, phoneme_vars, adjust_vars, ndjson_vars, response_vars, strip_vars, player_vars>>

SpecRead == InitRead /\ [][NextRead]_vars

InitStrip ==
    /\ strip_data \in Mp3StripInputs \cup WavStripInputs
    /\ strip_fn = "none"
    /\ strip_result = <<>>
    /\ TextIdle /\ WavIdle /\ Mp3Idle /\ PhonemeIdle /\ AdjustIdle /\ NdjsonIdle /\ ResponseIdle /\ ReadIdle /\ PlayerIdle

NextStrip ==
    \/ RemoveMp3Header /\ UNCHANGED <<text_vars, wav_vars, mp3_vars, phoneme_vars, adjust_vars, ndjson_vars, response_vars, read_vars, player_vars>>
    \/ RemoveWavHeader /\ UNCHANGED <<text_vars, wav_vars, mp3_vars, phoneme_vars, adjust_vars, ndjson_vars, response_vars, read_vars, player_vars>>

SpecStrip == InitStrip /\ [][NextStrip]_vars

InitPlayer ==
    /\ is_playing = FALSE
    /\ stop_event = FALSE
    /\ audio_queue = <<>>
    /\ chunk_accumulator = <<>>
    /\ audio_stream = <<>>
    /\ settings = NoSettings
    /\ min_chunk_size = InitialMinChunkSize
    /\ output_stream = FALSE
    /\ accepted = <<>>
    /\ feeder = "unstarted"
    /\ producer = "ready"
    /\ TextIdle /\ WavIdle /\ Mp3Idle /\ PhonemeIdle /\ AdjustIdle /\ NdjsonIdle /\ ResponseIdle /\ ReadIdle /\ StripIdle

NextPlayer ==
    \/ StartPlayer /\ UNCHANGED <<text_vars, wav_vars, mp3_vars, phoneme_vars, adjust_vars, ndjson_vars, response_vars, read_vars, strip_vars>>
    \/ AddAudioChunk /\ UNCHANGED <<text_vars, wav_vars, mp3_vars, phoneme_vars, adjust_vars, ndjson_vars, response_vars, read_vars, strip_vars>>
    \/ StopFlush /\ UNCHANGED <<text_vars, wav_vars, mp3_vars, phoneme_vars, adjust_vars, ndjson_vars, response_vars, read_vars, strip_vars>>
    \/ StopSignal /\ UNCHANGED <<text_vars, wav_vars, mp3_vars, phoneme_vars, adjust_vars, ndjson_vars, response_vars, read_vars, strip_vars>>
    \/ StopSentinel /\ UNCHANGED <<text_vars, wav_vars, mp3_vars, phoneme_vars, adjust_vars, ndjson_vars, response_vars, read_vars, strip_vars>>
    \/ StopJoin /\ UNCHANGED <<text_vars, wav_vars, mp3_vars, phoneme_vars, adjust_vars, ndjson_vars, response_vars, read_vars, strip_vars>>
    \/ FeederCheck /\ UNCHANGED <<text_vars, wav_vars, mp3_vars, phoneme_vars, adjust_vars, ndjson_vars, response_vars, read_vars, strip_vars>>
    \/ FeederGet /\ UNCHANGED <<text_vars, wav_vars, mp3_vars, phoneme_vars, adjust_vars, ndjson_vars, response_vars, read_vars, strip_vars>>

SpecPlayer == InitPlayer /\ [][NextPlayer]_vars

\* The feeder thread keeps being scheduled, and a stop_player that was
\* entered runs to its end.
FeederSteps ==
    (FeederCheck \/ FeederGet) /\ UNCHANGED <<text_vars, wav_vars, mp3_vars, phoneme_vars, adjust_vars, ndjson_vars, response_vars, read_vars, strip_vars>>

StopPlayerSteps ==
    (StopSignal \/ StopSentinel \/ StopJoin) /\ UNCHANGED <<text_vars, wav_vars, mp3_vars, phoneme_vars, adjust_vars, ndjson_vars, response_vars, read_vars, strip_vars>>

SpecPlayerFair ==
    SpecPlayer /\ WF_vars(FeederSteps) /\ WF_vars(StopPlayerSteps)

(***************************************************************************)
(* The claims.                                                             *)
(***************************************************************************)

\* C1: the chunks returned by chunk_text(text, max_length), concatenated in
\* order, are text itself, whitespace included.
C1_LosslessPartition ==
    tpc = "done" => Flatten(final_chunks) = text

\* C2: every chunk returned by chunk_text(text, max_length) has at most
\* max_length characters.
C2_SizeBound ==
    tpc = "done" =>
        \A i \in 1..Len(final_chunks) : Len(final_chunks[i]) <= max_length

\* A text whose only sentence is over the limit and is re-split by words: its
\* first word is cut into windows and the next word joins the last window.
C2_Witness ==
    /\ tpc = "done"
    /\ text = <<"a", "a", "a", "a", " ", "b">>
    /\ max_length = 3
    /\ final_chunks = << <<"a", "a", "a">>, <<"a", " ", "b">> >>

\* A canonical WAV file: the 44-byte header with "data" at offset 36, whose
\* size fields agree with the length of the payload that follows.
IsCanonicalWav(b) ==
    /\ Len(b) >= WAV_HEADER_SIZE
    /\ Slice(b, 0, 4) = RIFF
    /\ Slice(b, 8, 12) = WAVE
    /\ Slice(b, 12, 16) = FMT
    /\ Slice(b, 36, 40) = DATA
    /\ UnpackU32(Slice(b, 4, 8)) = Len(b) - 8
    /\ UnpackU32(Slice(b, 40, 44)) = Len(b) - WAV_HEADER_SIZE

PcmOf(b) == SliceFrom(b, WAV_HEADER_SIZE)

AllCanonical(blobs) == \A i \in 1..Len(blobs) : IsCanonicalWav(blobs[i])

\* C3: merging a non-empty list of canonical WAV files returns a 44-byte
\* header followed by the payloads in list order; the RIFF size is the
\* payload length + 36, the data size is the payload length, and the format
\* fields at offsets 22..35 are the first file's.
C3_WavMergeLayout ==
    (wpc = "done" /\ audio_chunks # <<>> /\ AllCanonical(audio_chunks)) =>
        LET pcm == Flatten([i \in 1..Len(audio_chunks) |-> PcmOf(audio_chunks[i])])
            out == merged_wav.bytes
        IN /\ merged_wav.kind = "ok"
           /\ Len(out) = WAV_HEADER_SIZE + Len(pcm)
           /\ Slice(out, 0, 4) = RIFF
           /\ UnpackU32(Slice(out, 4, 8)) = Len(pcm) + 36
           /\ Slice(out, 8, 22) = WAVE \o FMT \o PackU32(16) \o PackU16(1)
           /\ Slice(out, 22, 36) = Slice(audio_chunks[1], 22, 36)
           /\ Slice(out, 36, 40) = DATA
           /\ UnpackU32(Slice(out, 40, 44)) = Len(pcm)
           /\ SliceFrom(out, WAV_HEADER_SIZE) = pcm

\* Two files of 100 payload bytes each are merged: data size 200, RIFF size 236.
C3_Witness ==
    /\ wpc = "done"
    /\ Len(audio_chunks) = 2
    /\ AllCanonical(audio_chunks)
    /\ \A i \in 1..2 : Len(PcmOf(audio_chunks[i])) = 100
    /\ UnpackU32(Slice(merged_wav.bytes, 40, 44)) = 200
    /\ UnpackU32(Slice(merged_wav.bytes, 4, 8)) = 236

\* The chunks before the k-th.
ChunksBefore(k) == SubSeq(phoneme_chunks, 1, k - 1)

RECURSIVE TotalDuration(_)
TotalDuration(cs) ==
    IF cs = <<>> THEN 0
    ELSE SumSeq(Head(cs).durations_seconds) + TotalDuration(Tail(cs))

\* C4: in the merged sequence, the start of every chunk after the first
\* non-empty one is the sum of the durations of all earlier chunks,
\* whatever that chunk's own first start time is.
C4_RebasedToPriorDurations ==
    ppc = "done" =>
        \A k \in 1..Len(phoneme_chunks) :
            (PhonemeCount(phoneme_chunks[k]) > 0
             /\ TotalPhonemes(ChunksBefore(k)) > 0) =>
                merged.start_times_seconds[TotalPhonemes(ChunksBefore(k)) + 1]
                    = TotalDuration(ChunksBefore(k))

\* C5: for well-formed chunks the merged start times never decrease.
C5_MonotoneTimeline ==
    ppc = "done" => NonDecreasing(merged.start_times_seconds)

C7_ConcurrentAtMostOnce ==
    fail_at = 0 =>
        /\ iter_count <= 1
        /\ \A t \in Tasks :
              /\ rpc[t] # "failed"
              /\ rpc[t] = "done" => rret[t] = FullData

\* A file that starts with RIFF and holds no "data" marker.
RiffWithoutData(b) ==
    /\ Slice(b, 0, 4) = RIFF
    /\ \A i \in 0..Len(b) : Slice(b, i, i + 4) # DATA

\* A first file cut inside its 44-byte header.
TruncatedHeader(b) == Slice(b, 0, 4) = RIFF /\ Len(b) < WAV_HEADER_SIZE

\* C8: a RIFF file without a "data" subchunk, or a truncated first header,
\* makes the merge fail; no WAV file is returned.
C8_MalformedWavFails ==
    (/\ wpc = "done"
     /\ audio_chunks # <<>>
     /\ \/ \E i \in 1..Len(audio_chunks) : RiffWithoutData(audio_chunks[i])
        \/ TruncatedHeader(audio_chunks[1])) =>
        merged_wav.kind # "ok"

\* The audio of a well-formed line: the decoded payload of an object whose
\* audio_base64 is decodable text.
GoodAudio(l) ==
    IF l.json = "object" /\ l.hasaudio /\ ~ l.isnull /\ Len(l.b64) % 4 = 0
    THEN DecodeQuads(l.b64) ELSE <<>>

\* C9: extract_audio_from_ndjson raises for no input, and returns the audio
\* of the well-formed lines.
C9_NdjsonTolerant ==
    npc = "done" =>
        /\ nd_result.kind = "ok"
        /\ nd_result.bytes =
              Flatten([i \in 1..Len(ndjson_lines) |-> GoodAudio(ndjson_lines[i])])

\* C10: once a read of the stream has raised, the call that read has ended
\* with the failure, nothing is cached, and no call has returned bytes.
C10_FailureNotCached ==
    stream_broken =>
        /\ ~ content.cached
        /\ \E t \in Tasks : rpc[t] = "failed"
        /\ \A t \in Tasks : rpc[t] # "done"

\* The stream raised after a chunk was read, and a later call has ended too.
C10_Witness ==
    /\ stream_broken
    /\ \E t \in Tasks : rpc[t] = "failed" /\ rchunks[t] # <<>>
    /\ \A t \in Tasks : rpc[t] = "failed"

\* C11: a text of at most max_length characters is returned as the single
\* chunk [text], unmodified.
C11_IdentityLaw ==
    (tpc = "done" /\ Len(text) <= max_length) => final_chunks = << text >>

\* A text of exactly max_length characters, with punctuation and whitespace.
C11_Witness ==
    /\ tpc = "done"
    /\ text = <<"a", ".", " ">>
    /\ max_length = 3
    /\ final_chunks = << <<"a", ".", " ">> >>

\* C12, as stated: for every text, the empty one included, no returned chunk
\* is the empty string.
C12_NoEmptyChunk ==
    tpc = "done" => \A i \in 1..Len(final_chunks) : final_chunks[i] # <<>>

\* C12, amended: for every non-empty text there is at least one chunk and no
\* chunk is the empty string; the empty text is returned as [""].
C12_NoEmptyChunkOfNonEmptyText ==
    tpc = "done" =>
        /\ text # <<>> =>
              /\ final_chunks # <<>>
              /\ \A i \in 1..Len(final_chunks) : final_chunks[i] # <<>>
        /\ text = <<>> => final_chunks = << <<>> >>

\* A text over the limit whose words are separated by two blanks.
C12_Witness ==
    /\ tpc = "done"
    /\ text = <<"a", " ", " ", "b">>
    /\ max_length = 1
    /\ final_chunks = << <<"a">>, <<"b">> >>

WhitespaceOnly(s) == \A i \in 1..Len(s) : IsSpace(s[i])

\* C13, as stated: an empty or whitespace-only text is returned as exactly
\* one chunk equal to text, also when it is longer than max_length.
C13_WhitespaceSingleChunk ==
    (tpc = "done" /\ WhitespaceOnly(text)) => final_chunks = << text >>

\* C13, amended: an empty or whitespace-only text of at most max_length
\* characters is returned as exactly one chunk equal to text; a longer one
\* is cut into consecutive chunks of max_length characters, the last one
\* possibly shorter, whose concatenation is text.
C13_WhitespaceWithinLimit ==
    (tpc = "done" /\ WhitespaceOnly(text)) =>
        /\ Len(text) <= max_length => final_chunks = << text >>
        /\ Len(text) > max_length =>
              /\ Flatten(final_chunks) = text
              /\ Len(final_chunks) >= 2
              /\ \A i \in 1..(Len(final_chunks) - 1) :
                    Len(final_chunks[i]) = max_length
              /\ Len(final_chunks[Len(final_chunks)]) \in 1..max_length

\* Blanks and a tab, over the limit: cut into windows of two characters.
C13_Witness ==
    /\ tpc = "done"
    /\ text = <<" ", " ", "\t", " ">>
    /\ max_length = 2
    /\ final_chunks = << <<" ", " ">>, <<"\t", " ">> >>

\* Position j of s lies in the whitespace that follows a punctuation run.
SepSpace(s, j) ==
    /\ IsSpace(s[j])
    /\ \E k \in 1..(j - 1) :
          IsPunct(s[k]) /\ \A m \in (k + 1)..j : IsSpace(s[m])

\* The positions of s at which a sentence ends: the end of s, and the last
\* character of a punctuation run together with the whitespace after it.
SentenceEnds(s) ==
    { e \in 1..Len(s) :
        \/ e = Len(s)
        \/ IsPunct(s[e]) /\ ~ IsPunct(s[e + 1]) /\ ~ IsSpace(s[e + 1])
        \/ SepSpace(s, e) /\ ~ IsSpace(s[e + 1]) }

\* The position before the sentence that ends at e begins.
SentenceStart(s, e) ==
    LET before == { d \in SentenceEnds(s) : d < e } IN
    IF before = {} THEN 0
    ELSE CHOOSE d \in before : \A d2 \in before : d2 <= d

SentencesFit(s, n) == \A e \in SentenceEnds(s) : e - SentenceStart(s, e) <= n

\* The positions of the text at which the chunks end.
ChunkEnds(chunks) ==
    { Len(Flatten(SubSeq(chunks, 1, k))) : k \in 1..Len(chunks) }

\* C14: when every sentence of text has at most max_length characters, the
\* chunks partition text and every chunk ends where a sentence ends (or is
\* empty, at the start of text): no chunk boundary separates a sentence's
\* words from its punctuation.
C14_SentencesKeptWhole ==
    (tpc = "done" /\ SentencesFit(text, max_length)) =>
        /\ Flatten(final_chunks) = text
        /\ ChunkEnds(final_chunks) \subseteq (SentenceEnds(text) \cup {0})

StartsWithRiff(b) == Slice(b, 0, 4) = RIFF

\* What a file contributes to the merge: a canonical file its payload, a
\* blob without the RIFF magic all of its bytes.
Contribution(b) == IF StartsWithRiff(b) THEN PcmOf(b) ELSE b

\* C15: in a list whose RIFF files are canonical, every blob that does not
\* start with RIFF, at any position and of any length, contributes all of
\* its bytes in order, and the merge returns a result.
C15_RawPayloadFallback ==
    (/\ wpc = "done"
     /\ \E i \in 1..Len(audio_chunks) : ~ StartsWithRiff(audio_chunks[i])
     /\ \A i \in 1..Len(audio_chunks) :
           StartsWithRiff(audio_chunks[i]) => IsCanonicalWav(audio_chunks[i])) =>
        /\ merged_wav.kind = "ok"
        /\ SliceFrom(merged_wav.bytes, WAV_HEADER_SIZE) =
              Flatten([i \in 1..Len(audio_chunks) |-> Contribution(audio_chunks[i])])

\* The number of bytes of the blobs before the k-th.
Mp3Offset(k) == SumSeq([i \in 1..(k - 1) |-> Len(mp3_chunks[i])])

\* C16: the merged MP3 has as many bytes as the blobs together, and the
\* bytes of the k-th blob stand unchanged behind those of the blobs before
\* it: nothing is stripped, inserted or reordered.
C16_Mp3Concatenation ==
    mpc = "done" =>
        /\ Len(merged_mp3) = SumSeq([i \in 1..Len(mp3_chunks) |-> Len(mp3_chunks[i])])
        /\ \A k \in 1..Len(mp3_chunks) :
              SubSeq(merged_mp3, Mp3Offset(k) + 1, Mp3Offset(k) + Len(mp3_chunks[k]))
                  = mp3_chunks[k]

\* Blobs of 500, 700 and 300 bytes are merged into 1500 bytes.
C16_Witness ==
    /\ mpc = "done"
    /\ [i \in 1..Len(mp3_chunks) |-> Len(mp3_chunks[i])] = <<500, 700, 300>>
    /\ Len(merged_mp3) = 1500

\* None, {} or a dict with three empty lists.
IsEmptyChunk(c) == c \in {NoneChunk, EmptyDict, Dict(<<>>, <<>>, <<>>)}

WithoutEmptyChunks(chunks) == SelectSeq(chunks, LAMBDA c : ~ IsEmptyChunk(c))

\* C17: the merge of a list is the merge of the list without its empty or
\* missing chunks, so inserting or removing such chunks anywhere changes
\* nothing in the result.
C17_EmptyChunksTransparent ==
    ppc = "done" =>
        merged = merge_phoneme_data(WithoutEmptyChunks(phoneme_chunks))

\* An empty or missing chunk between two chunks with phonemes.
C17_Witness ==
    /\ ppc = "done"
    /\ Len(phoneme_chunks) = 3
    /\ PhonemeCount(phoneme_chunks[1]) > 0
    /\ IsEmptyChunk(phoneme_chunks[2])
    /\ PhonemeCount(phoneme_chunks[3]) > 0
    /\ Len(merged.start_times_seconds) = 2

\* C18: the three merged lists have the same length, and the merged symbols
\* and durations are the chunks' symbols and durations in order, unchanged.
C18_ParallelArrays ==
    ppc = "done" =>
        /\ Len(merged.symbols) = Len(merged.durations_seconds)
        /\ Len(merged.durations_seconds) = Len(merged.start_times_seconds)
        /\ merged.symbols =
              Flatten([i \in 1..Len(phoneme_chunks) |-> phoneme_chunks[i].symbols])
        /\ merged.durations_seconds =
              Flatten([i \in 1..Len(phoneme_chunks) |->
                         phoneme_chunks[i].durations_seconds])

\* A chunk of one phoneme and a chunk of two are merged into three.
C18_Witness ==
    /\ ppc = "done"
    /\ phoneme_chunks = << Dict(<<"a">>, <<2>>, <<0>>),
                           Dict(<<"b", "a">>, <<3, 2>>, <<2, 10>>) >>
    /\ merged.symbols = <<"a", "b", "a">>
    /\ merged.durations_seconds = <<2, 3, 2>>
    /\ Len(merged.start_times_seconds) = 3

\* C19: the call adjust_phoneme_timing(adj_data, adj_offset) returns a
\* sequence whose i-th start time is the input's i-th start time plus the
\* offset and whose symbols and durations are the input's, and it leaves
\* the input as it was.
C19_AdjustIsPureShift ==
    [][(apc = "input" /\ apc' = "done") =>
          /\ adj_data' = adj_data
          /\ Get(adj_result', "start_times_seconds") =
                Shifted(Get(adj_data, "start_times_seconds"), adj_offset)
          /\ Get(adj_result', "symbols") = Get(adj_data, "symbols")
          /\ Get(adj_result', "durations_seconds") = Get(adj_data, "durations_seconds")
          /\ adj_result'.keys = adj_data.keys]_vars

\* Two phonemes starting at 0 and 2 are shifted by 7; the input still
\* holds 0 and 2.
C19_Witness ==
    /\ apc = "done"
    /\ adj_offset = 7
    /\ adj_data = Dict(<<"a", "b">>, <<2, 3>>, <<0, 2>>)
    /\ adj_result = Dict(<<"a", "b">>, <<2, 3>>, <<7, 9>>)

\* Every line that carries audio_base64 carries decodable base64 text.
PayloadsDecodable(lines) ==
    \A i \in 1..Len(lines) :
        (lines[i].json = "object" /\ lines[i].hasaudio) =>
            (~ lines[i].isnull /\ Len(lines[i].b64) % 4 = 0)

\* C20: for lines whose audio_base64 fields hold base64 text, the call
\* returns the decoded payloads of the lines that carry the field, in line
\* order; blank lines, malformed lines and lines without the field add
\* nothing, and a single object with the field yields its payload.
C20_NdjsonResult ==
    (npc = "done" /\ PayloadsDecodable(ndjson_lines)) =>
        /\ nd_result.kind = "ok"
        /\ nd_result.bytes =
              Flatten([i \in 1..Len(ndjson_lines) |->
                         IF ndjson_lines[i].json = "object" /\ ndjson_lines[i].hasaudio
                         THEN DecodeQuads(ndjson_lines[i].b64) ELSE <<>>])

\* C21: repeated calls on a response whose result is a readable stream all
\* return the stream's bytes, and the underlying stream is read at most
\* once, whether or not the result object caches.
C21_ReadMaterializeOnce ==
    /\ \A i \in 1..Len(rs_log) : rs_log[i].bytes = rs_data
    /\ rs_reads <= 1

\* The blob d without its tags, for a leading tag of `size` declared bytes:
\* 10 + size leading bytes (20 + size with the footer flag) go when d holds
\* a 10-byte header starting with "ID3", then the last 128 bytes go when
\* they start with "TAG".
WithoutTags(d, size) ==
    LET lead == IF Len(d) >= 10 /\ SubSeq(d, 1, 3) = ID3
                THEN (IF (d[6] \div 16) % 2 = 1 THEN 20 ELSE 10) + size
                ELSE 0
        rest == SubSeq(d, lead + 1, Len(d))
    IN IF Len(rest) >= 128 /\ SubSeq(rest, Len(rest) - 127, Len(rest) - 125) = TAG
       THEN SubSeq(rest, 1, Len(rest) - 128)
       ELSE rest

\* b6*2^21 + b7*2^14 + b8*2^7 + b9 of the bytes 6..9 of d.
SumOfSizeBytes(d) ==
    IF Len(d) >= 10 THEN d[7] * 2097152 + d[8] * 16384 + d[9] * 128 + d[10] ELSE 0

\* Bit k of the natural x.
Bit(x, k) == (x \div (2 ^ k)) % 2

\* The number whose bit k is set exactly when bit k is set in one of
\* b6*2^21, b7*2^14, b8*2^7 and b9.
RECURSIVE OrOfSizeBytesFrom(_, _)
OrOfSizeBytesFrom(d, k) ==
    IF k > 28 THEN 0
    ELSE (IF \E x \in {d[7] * 2097152, d[8] * 16384, d[9] * 128, d[10]} : Bit(x, k) = 1
          THEN 2 ^ k ELSE 0) + OrOfSizeBytesFrom(d, k + 1)

OrOfSizeBytes(d) == IF Len(d) >= 10 THEN OrOfSizeBytesFrom(d, 0) ELSE 0

\* C22, as stated: remove_mp3_header drops a leading ID3v2 tag of
\* 10 + size bytes (20 + size with the footer flag), size being the sum
\* b6*2^21 + b7*2^14 + b8*2^7 + b9, and then a trailing 128-byte "TAG" tag.
C22_Mp3TagsStrippedSum ==
    strip_fn = "remove_mp3_header" =>
        strip_result = WithoutTags(strip_data, SumOfSizeBytes(strip_data))

\* C22, amended: the same, size being the bitwise or of b6*2^21, b7*2^14,
\* b8*2^7 and b9, which is their sum when every size byte is below 128.
C22_Mp3TagsStrippedOr ==
    strip_fn = "remove_mp3_header" =>
        /\ strip_result = WithoutTags(strip_data, OrOfSizeBytes(strip_data))
        /\ (Len(strip_data) >= 10 /\ \A i \in 7..10 : strip_data[i] < 128) =>
              OrOfSizeBytes(strip_data) = SumOfSizeBytes(strip_data)

\* A tag of 3 bytes with a footer, one frame, a trailing ID3v1 tag: the
\* frame is what remains.
C22_Witness ==
    /\ strip_fn = "remove_mp3_header"
    /\ strip_data = Id3v2Header(16, 0, 0, 0, 3) \o Filler(13) \o <<255, 251, 17>> \o Id3v1Tag
    /\ strip_result = <<255, 251, 17>>

\* The offsets at which the letters "data" stand in b.
DataMarkers(b) == { i \in 0..(Len(b) - 4) : SubSeq(b, i + 1, i + 4) = DATA }

C24_SegmenterTotal ==
    /\ tpc # "raised"
    /\ (tpc = "done" /\ text # <<>>) =>
          /\ final_chunks \in Seq(Seq(Alphabet))
          /\ Len(final_chunks) \in 1..Len(text)

\* A text without blanks over the limit of 1: the character split, whose
\* range() steps by max_length, has run.
C24_Witness ==
    /\ tpc = "done"
    /\ text = <<"a", "b", "a">>
    /\ max_length = 1
    /\ final_chunks = << <<"a">>, <<"b">>, <<"a">> >>

\* The files with a data subchunk, each with the bytes of that subchunk
\* that the file holds.
DataSubchunks ==
    { [blob |-> CanonicalWav(Mono16k, p), data |-> p] : p \in Payloads }
    \cup { [blob |-> CanonicalWav(Stereo44k, <<34, 17>>), data |-> <<34, 17>>],
           [blob |-> CanonicalWav(Mono16k, Payload100), data |-> Payload100],
           [blob |-> ListWav(Mono16k, <<1, 2>>, <<17, 34>>), data |-> <<17, 34>>],
           [blob |-> WavOf(Mono16k, << Subchunk(LIST, <<1, 2>>), Subchunk(LIST, <<3>>) >>, <<17, 34>>, <<>>),
            data |-> <<17, 34>>],
           [blob |-> WavOf(Mono16k, << Subchunk(LIST, DATA \o <<1, 2>>) >>, <<34, 34>>, <<>>),
            data |-> <<34, 34>>],
           [blob |-> WavOf(Mono16k, <<>>, <<34, 17>>, << Subchunk(LIST, <<9, 9>>) >>),
            data |-> <<34, 17>>],
           [blob |-> SubSeq(CanonicalWav(Mono16k, <<17, 34, 17, 34>>), 1, 46),
            data |-> <<17, 34>>] }

HasDataSubchunk(b) == \E c \in DataSubchunks : c.blob = b

DataOf(b) == (CHOOSE c \in DataSubchunks : c.blob = b).data

\* C25: when every file of the list has at least 44 bytes, starts with
\* RIFF and has a data subchunk, behind any number of other subchunks, the
\* merged payload is made of the bytes of the files' first data subchunks
\* and of nothing that stands before or behind them.
C25_DataSubchunkExtraction ==
    (/\ wpc = "done"
     /\ audio_chunks # <<>>
     /\ \A i \in 1..Len(audio_chunks) : HasDataSubchunk(audio_chunks[i])) =>
        /\ merged_wav.kind = "ok"
        /\ SliceFrom(merged_wav.bytes, WAV_HEADER_SIZE) =
              Flatten([i \in 1..Len(audio_chunks) |-> DataOf(audio_chunks[i])])

\* A file with two subchunks before data and a file with a subchunk behind
\* data: the two payloads are merged.
C25_Witness ==
    /\ wpc = "done"
    /\ audio_chunks =
          << WavOf(Mono16k, << Subchunk(LIST, <<1, 2>>), Subchunk(LIST, <<3>>) >>, <<17, 34>>, <<>>),
             WavOf(Mono16k, <<>>, <<34, 17>>, << Subchunk(LIST, <<9, 9>>) >>) >>
    /\ SliceFrom(merged_wav.bytes, WAV_HEADER_SIZE) = <<17, 34, 34, 17>>

\* The first chunk that has phonemes.
FirstNonEmpty ==
    CHOOSE k \in 1..Len(phoneme_chunks) :
        /\ PhonemeCount(phoneme_chunks[k]) > 0
        /\ \A j \in 1..(k - 1) : PhonemeCount(phoneme_chunks[j]) = 0

\* C26: with the first start time of the first non-empty chunk as
\* baseline, the start times of that chunk become t - baseline, and those
\* of every later chunk become (t - baseline) plus the sum of the durations
\* of all earlier chunks.
C26_OffsetRule ==
    (ppc = "done" /\ TotalPhonemes(phoneme_chunks) > 0) =>
        LET baseline == phoneme_chunks[FirstNonEmpty].start_times_seconds[1] IN
        /\ merged.start_times_seconds[1] = 0
        /\ \A k \in 1..Len(phoneme_chunks) :
              \A j \in 1..PhonemeCount(phoneme_chunks[k]) :
                  merged.start_times_seconds[TotalPhonemes(ChunksBefore(k)) + j] =
                      (phoneme_chunks[k].start_times_seconds[j] - baseline)
                      + (IF k = FirstNonEmpty THEN 0
                         ELSE TotalDuration(ChunksBefore(k)))

\* A chunk that starts at 2 and lasts 2, then a chunk with starts 2 and 10:
\* the merged starts are 0, (2 - 2) + 2 and (10 - 2) + 2.
C26_Witness ==
    /\ ppc = "done"
    /\ phoneme_chunks = << Dict(<<"a">>, <<2>>, <<2>>),
                           Dict(<<"b", "a">>, <<3, 2>>, <<2, 10>>) >>
    /\ merged.start_times_seconds = <<0, 2, 10>>

\* The words of the chunks, in order.
RECURSIVE WordsOfChunks(_)
WordsOfChunks(chunks) ==
    IF chunks = <<>> THEN <<>>
    ELSE WordsFrom(Head(chunks), 1) \o WordsOfChunks(Tail(chunks))

\* Every word of at most n characters whole, every longer word as its
\* consecutive windows of n characters from its first character on.
RECURSIVE WholeOrWindows(_, _)
WholeOrWindows(words, n) ==
    IF words = <<>> THEN <<>>
    ELSE (IF Len(Head(words)) <= n THEN << Head(words) >>
          ELSE [k \in 1..((Len(Head(words)) + n - 1) \div n) |->
                  SubSeq(Head(words), (k - 1) * n + 1, Min2(k * n, Len(Head(words))))])
         \o WholeOrWindows(Tail(words), n)

NoPunctuation(s) == \A i \in 1..Len(s) : ~ IsPunct(s[i])

StopPlayerCalled == producer # "ready" /\ feeder # "unstarted"
Drained == feeder = "exited" /\ audio_stream = accepted
C28_StopDrainsBuffer == StopPlayerCalled ~> Drained

\* C29: deleting every whitespace character from the concatenation of the
\* chunks returned by chunk_text(text, max_length) gives the same string as
\* deleting every whitespace character from text: no other character is
\* lost, duplicated or moved.
DropWhitespace(s) == SelectSeq(s, LAMBDA c : ~IsSpace(c))
C29_ContentPreserved ==
    tpc = "done" =>
        DropWhitespace(Flatten(final_chunks)) = DropWhitespace(text)

\* C29 witness: all three stages act on ".a bab" with max_length 2: the
\* sentence stage cuts after ".", the word stage cuts "a bab" at the blank,
\* which it deletes, and the character stage cuts the word "bab".
C29_Witness ==
    /\ tpc = "done"
    /\ text = <<".", "a", " ", "b", "a", "b">>
    /\ max_length = 2
    /\ final_chunks = << <<".">>, <<"a">>, <<"b", "a">>, <<"b">> >>

\* C30: merge_wav_binary is compositional: whenever merge_wav_binary(xs \o
\* ys) returns a result for a non-empty xs, merge_wav_binary(xs) returns one
\* too and merging it with ys gives the same bytes,
\*   merge_wav_binary(<<merge_wav_binary(xs)>> \o ys) = merge_wav_binary(xs \o ys);
\* with ys empty: merging a merged blob alone returns it unchanged.
MergedPrefix(k) == merge_wav_binary(SubSeq(audio_chunks, 1, k))
BlobsAfter(k) == SubSeq(audio_chunks, k + 1, Len(audio_chunks))
C30_MergeCompositional ==
    wpc = "done" /\ merged_wav.kind = "ok" =>
        \A k \in 1..Len(audio_chunks) :
            /\ MergedPrefix(k).kind = "ok"
            /\ merge_wav_binary(<<MergedPrefix(k).bytes>> \o BlobsAfter(k))
                 = merged_wav

\* C30 witness: two blobs were merged, the first with a LIST subchunk
\* before its payload, both with a payload of their own.
C30_Witness ==
    /\ wpc = "done"
    /\ merged_wav.kind = "ok"
    /\ Len(audio_chunks) = 2
    /\ audio_chunks[1] = ListWav(Mono16k, <<1, 2>>, <<17, 34>>)
    /\ ExtractAudio(audio_chunks[2]) # <<>>
    /\ StartsWithRiff(audio_chunks[2])

====
